---- MODULE Spec2Model ----
(***************************************************************************)
(* Model of the S3-to-WebDAV proxy backend (rclone "serve s3" with the     *)
(* access key forwarded as a WebDAV bearer token).                         *)
(*                                                                         *)
(* Several specifications share the module:                                *)
(*   Spec      the backend operations of cmd/serve/s3/backend.go acting on *)
(*             one tenant's WebDAV tree (each handler is one action);      *)
(*   SpecRange range reads of an object of every length;                   *)
(*   SpecList  ListBuckets and ListBucket over a family of trees;          *)
(*   SpecMeta  PutObject, TouchObject and CopyObject with user metadata,   *)
(*             Content-MD5 and failing chtimes on one key;                 *)
(*   SpecAuth  concurrent requests of several tenants going through       *)
(*             setAuthForWebDAV step by step and issuing WebDAV calls.     *)
(***************************************************************************)
EXTENDS Integers, Sequences, FiniteSets, Bags, TLC

VARIABLES
    fs,              \* the WebDAV tree: [dirs : set of paths, files : path -> [body, mtime]]
    tmpMetaStorage,  \* backend.go:26, full path -> user metadata map
    result,          \* what the last backend operation was given and returned
    views,           \* every VFS ever constructed: sequence of [name, token]
    pc,              \* SpecAuth: request -> position in its handler
    reqHeader,       \* SpecAuth: request -> its Sig-V4 Authorization header
    newFs,           \* SpecAuth: request -> the filesystem info.NewFs built for it
    vfOf,            \* SpecAuth: request -> index in views of the VFS it holds (0: none)
    calls,           \* SpecAuth: request -> WebDAV calls it has issued
    webdavLog,       \* SpecAuth: set of [req, auth] WebDAV calls seen by the server
    lock,            \* backend.go:31, db.lock: the request holding it (0: free)
    stack,           \* request -> its call stack of backend functions, top first
    reqCtx           \* SpecProxy: request -> the values of its request context

vars == <<fs, tmpMetaStorage, result, views, pc, reqHeader, newFs, vfOf, calls, webdavLog,
          lock, stack, reqCtx>>

fsVars == <<fs, tmpMetaStorage, result>>
concVars == <<lock, stack, reqCtx>>
authVars == <<pc, reqHeader, newFs, vfOf, calls, webdavLog, concVars>>

(***************************************************************************)
(* Bounds                                                                  *)
(***************************************************************************)
MaxBody == 2        \* longest object body
NumRequests == 2    \* concurrent requests in SpecAuth
MaxCalls == 2       \* WebDAV calls one request issues after binding its view
MaxPrefix == 2      \* longest listing prefix drawn from the prefix alphabet
MaxKeys == 2        \* most keys one DeleteMulti is given
MaxDepth == 3       \* re-invocations of TouchObject that are counted apart

(***************************************************************************)
(* Paths.  A path is a sequence of names; <<>> is the WebDAV root.         *)
(***************************************************************************)
Buckets == {"b1", "b2"}
\* the bucket the object operations of Spec are given
ObjectBuckets == {"b1"}
ObjectKeys == {<<"x">>, <<"d">>, <<"d", "e", "x">>}

pathJoin(bucket, key) == <<bucket>> \o key
pathDir(p) == SubSeq(p, 1, Len(p) - 1)

Body(n) == [i \in 1..n |-> i]
BodyRev(n) == [i \in 1..n |-> n + 1 - i]
Bodies == {Body(n) : n \in 0..MaxBody} \cup {BodyRev(n) : n \in 0..MaxBody}

EmptyMeta == [h \in {} |-> ""]
EmptyFiles == [p \in {} |-> [body |-> <<>>, mtime |-> "now"]]
EmptyFs == [dirs |-> {}, files |-> EmptyFiles]

(***************************************************************************)
(* The filesystem adapter and the VFS over it (stat, remove, mkdir,        *)
(* create, write, chtimes): results are "ok" or an errno name.             *)
(***************************************************************************)
vfsStat(f, p) ==
    IF p = <<>> \/ p \in f.dirs THEN "dir"
    ELSE IF p \in DOMAIN f.files THEN "file"
    ELSE "ENOENT"

Children(f, p) ==
    {q \in f.dirs \cup DOMAIN f.files : Len(q) = Len(p) + 1 /\ pathDir(q) = p}

WithoutFile(files, p) == [q \in DOMAIN files \ {p} |-> files[q]]

WithFile(files, p, node) ==
    [q \in DOMAIN files \cup {p} |-> IF q = p THEN node ELSE files[q]]

vfsRemove(f, p) ==
    LET st == vfsStat(f, p) IN
    IF st = "ENOENT" THEN [err |-> "ENOENT", fs |-> f]
    ELSE IF st = "file"
        THEN [err |-> "ok", fs |-> [f EXCEPT !.files = WithoutFile(f.files, p)]]
    ELSE IF p = <<>> THEN [err |-> "EPERM", fs |-> f]
    ELSE IF Children(f, p) # {} THEN [err |-> "ENOTEMPTY", fs |-> f]
    ELSE [err |-> "ok", fs |-> [f EXCEPT !.dirs = f.dirs \ {p}]]

vfsMkdir(f, p) ==
    LET st == vfsStat(f, p) IN
    IF p = <<>> \/ vfsStat(f, pathDir(p)) # "dir" THEN [err |-> "ENOENT", fs |-> f]
    ELSE IF st = "dir" THEN [err |-> "ok", fs |-> f]
    ELSE IF st = "file" THEN [err |-> "EEXIST", fs |-> f]
    ELSE [err |-> "ok", fs |-> [f EXCEPT !.dirs = f.dirs \cup {p}]]

\* vf.Create: open for writing, creating or truncating the file
vfsCreate(f, p) ==
    IF p = <<>> \/ vfsStat(f, pathDir(p)) # "dir" THEN [err |-> "ENOENT", fs |-> f]
    ELSE IF vfsStat(f, p) = "dir" THEN [err |-> "EISDIR", fs |-> f]
    ELSE [err |-> "ok",
          fs |-> [f EXCEPT !.files = WithFile(f.files, p, [body |-> <<>>, mtime |-> "now"])]]

\* io.Copy into the open file followed by a successful Close
vfsWrite(f, p, body) ==
    [f EXCEPT !.files = WithFile(f.files, p, [body |-> body, mtime |-> "now"])]

vfsChtimes(f, p, t) ==
    IF vfsStat(f, p) = "file"
        THEN [err |-> "ok", fs |-> [f EXCEPT !.files[p].mtime = t]]
    ELSE IF vfsStat(f, p) = "dir" THEN [err |-> "ok", fs |-> f]
    ELSE [err |-> "ENOENT", fs |-> f]

\* webdav: Features().CanHaveEmptyDirectories
CanHaveEmptyDirectories == TRUE

\* mkdirRecursive(path, vf): stat each prefix of the path, mkdir the missing ones
RECURSIVE mkdirFrom(_, _, _)
mkdirFrom(f, p, i) ==
    IF i > Len(p) THEN [err |-> "ok", fs |-> f]
    ELSE LET dir == SubSeq(p, 1, i)
             mk == vfsMkdir(f, dir)
         IN IF vfsStat(f, dir) # "ENOENT" THEN mkdirFrom(f, p, i + 1)
            ELSE IF mk.err # "ok" THEN mk
            ELSE mkdirFrom(mk.fs, p, i + 1)

mkdirRecursive(f, p) == mkdirFrom(f, p, 1)

\* rmdirRecursive(p, vf): remove the parents of p that are empty directories,
\* walking up and stopping below the bucket; failures are swallowed
RECURSIVE rmdirRecursive(_, _)
rmdirRecursive(f, p) ==
    LET dir == pathDir(p)
        rm == vfsRemove(f, dir)
    IN IF Len(dir) <= 1 THEN f
       ELSE IF vfsStat(f, dir) # "dir" THEN f
       ELSE IF rm.err # "ok" THEN f
       ELSE rmdirRecursive(rm.fs, dir)

(***************************************************************************)
(* Strings.  Names of directory entries are atoms in the paths above; the  *)
(* string operations of the listing (HasPrefix, path.Join, URL-encoding)   *)
(* work on their spelling, a sequence of bytes.  "C3" "A4" are the two     *)
(* bytes of a non-ASCII letter, "/" is the path separator.                 *)
(***************************************************************************)
Spell(name) ==
    CASE name = "b1" -> <<"b", "1">>
      [] name = "b2" -> <<"b", "2">>
      [] name = "f"  -> <<"f">>
      [] name = "x"  -> <<"x">>
      [] name = "d"  -> <<"d">>
      [] name = "e"  -> <<"e">>
      [] name = "dx" -> <<"d", "x">>
      [] name = "w"  -> <<" ", "C3", "A4", "#">>
      [] name = "q"  -> <<"%", "2", "0", "?", "&">>
      [] OTHER -> <<"!">>

Names == {"b1", "b2", "f", "x", "d", "e", "dx", "w", "q"}

\* the entry name a string spells; "?" is the name of no entry
NameOf(s) ==
    IF \E n \in Names : Spell(n) = s THEN CHOOSE n \in Names : Spell(n) = s ELSE "?"

\* strings.HasPrefix(s, prefix)
HasPrefix(s, prefix) ==
    Len(prefix) <= Len(s) /\ SubSeq(s, 1, Len(prefix)) = prefix

\* the "/"-separated elements of a string, empty elements dropped
RECURSIVE SplitFrom(_, _, _)
SplitFrom(s, i, cur) ==
    IF i > Len(s) THEN (IF cur = <<>> THEN <<>> ELSE <<cur>>)
    ELSE IF s[i] = "/"
        THEN (IF cur = <<>> THEN <<>> ELSE <<cur>>) \o SplitFrom(s, i + 1, <<>>)
    ELSE SplitFrom(s, i + 1, Append(cur, s[i]))

Split(s) == SplitFrom(s, 1, <<>>)

RECURSIVE JoinElems(_)
JoinElems(elems) ==
    IF elems = <<>> THEN <<>>
    ELSE IF Len(elems) = 1 THEN elems[1]
    ELSE elems[1] \o <<"/">> \o JoinElems(Tail(elems))

\* path.Join(a, b) on strings: the elements of both, cleaned of empty ones
pathJoinStr(a, b) == JoinElems(Split(a) \o Split(b))

\* the path in the tree that path.Join(bucket, fdPath) names
Resolve(bucket, fdPath) ==
    <<bucket>> \o [i \in 1..Len(Split(fdPath)) |-> NameOf(Split(fdPath)[i])]

\* the string of a path of names
SpellPath(p) == JoinElems([i \in 1..Len(p) |-> Spell(p[i])])

CountSlash(s) == Cardinality({i \in 1..Len(s) : s[i] = "/"})

\* bytes that URL-encoding leaves alone, and the escape of every other byte
Unreserved == {"a", "b", "d", "e", "f", "x", "0", "1", "2", "/"}
PercentCode(c) ==
    CASE c = " "  -> <<"%", "2", "0">>
      [] c = "#"  -> <<"%", "2", "3">>
      [] c = "%"  -> <<"%", "2", "5">>
      [] c = "&"  -> <<"%", "2", "6">>
      [] c = "?"  -> <<"%", "3", "F">>
      [] c = "C3" -> <<"%", "C", "3">>
      [] c = "A4" -> <<"%", "A", "4">>
      [] OTHER -> <<"%", "2", "1">>
Escaped == {" ", "#", "%", "&", "?", "C3", "A4", "!"}

URLEncodeRaw(s) == s

\* gofakes3.URLEncode: every byte but the unreserved ones and "/" escaped
RECURSIVE URLEncode(_)
URLEncode(s) ==
    IF s = <<>> THEN <<>>
    ELSE (IF s[1] \in Unreserved THEN <<s[1]>> ELSE PercentCode(s[1]))
             \o URLEncode(Tail(s))

\* URL-decoding as an S3 client does it: "%" and two digits give one byte
RECURSIVE URLDecode(_)
URLDecode(s) ==
    IF s = <<>> THEN <<>>
    ELSE IF s[1] = "%" /\ Len(s) >= 3
            /\ \E c \in Escaped : PercentCode(c) = SubSeq(s, 1, 3)
        THEN <<CHOOSE c \in Escaped : PercentCode(c) = SubSeq(s, 1, 3)>>
                 \o URLDecode(SubSeq(s, 4, Len(s)))
    ELSE <<s[1]>> \o URLDecode(Tail(s))

(***************************************************************************)
(* Identity: access keys, the per-identity VFS and its bearer token.       *)
(***************************************************************************)
AccessKeys == {"KeyOfUserAlice", "KeyOfUserBob"}
Secrets == {"secret1", "secret2"}
Requests == 1..NumRequests

RemoteName == "webdavtest"
NoToken == ""
RemoteIsWebDAV == TRUE

\* the Authorization header the WebDAV server sees for a token
Bearer(token) == <<"Bearer", token>>

\* An AWS Sig-V4 Authorization header: the Credential field carries the access
\* key, the Signature field is computed with the secret.
SigV4Headers == [credential : AccessKeys, signature : Secrets]

\* one pair is configured
authPairAlice == {<<"KeyOfUserAlice", "secret1">>}

\* serveropt.authPair, the configured access_key,secret_key pairs: none, as
\* serveS3(f, "", "") leaves it (forwarding mode)
authPair == {}

\* gofakes3.WithV4Auth(authlistResolver(opt.authPair)): with no pair
\* configured the signature is not verified and every request is let
\* through; with pairs, the key must be known and the signature must be the
\* one its secret gives
V4Auth(pairs, header) ==
    IF pairs = {} THEN "ok"
    ELSE IF \A pair \in pairs : pair[1] # header.credential THEN "InvalidAccessKeyId"
    ELSE IF <<header.credential, header.signature>> \notin pairs
        THEN "SignatureDoesNotMatch"
    ELSE "ok"

parseAuthTokenSignature(header) == header.signature

parseAuthToken(header) == header.credential

ConfigNameShared(accessKey) == <<RemoteName>>

\* name+accessKey: the config name of the filesystem built for an access key
ConfigName(accessKey) == <<RemoteName, accessKey>>

\* info.NewFs: a fresh filesystem of that name, no bearer token configured.
\* madeFor and rewritten are history: the access key of the request the
\* filesystem was built for, and whether its token was set again after it
\* had been set.
NewFs(name, accessKey) ==
    [name |-> name, token |-> NoToken, madeFor |-> accessKey, rewritten |-> FALSE]

\* vfs.New keeps the active VFSes by the config name of their filesystem:
\* the index of the active VFS of that name, 0 when there is none
vfsActive(vs, name) ==
    IF \E i \in 1..Len(vs) : vs[i].name = name
        THEN CHOOSE i \in 1..Len(vs) : vs[i].name = name
    ELSE 0

\* vfs.New(f, opt): the active VFS of f's name when there is one, else a new
\* VFS over f, which becomes active
vfsNew(vs, f) ==
    IF vfsActive(vs, f.name) # 0
        THEN [views |-> vs, vf |-> vfsActive(vs, f.name)]
    ELSE [views |-> Append(vs, f), vf |-> Len(vs) + 1]

SetBearerToken(vs, vf, token) ==
    [vs EXCEPT ![vf].token = token,
               ![vf].rewritten = vs[vf].rewritten \/ vs[vf].token # NoToken]

\* setAuthForWebDAV run without interruption: the views afterwards
setAuthForWebDAV(vs, accessKey) ==
    LET n == vfsNew(vs, NewFs(ConfigName(accessKey), accessKey))
    IN IF RemoteIsWebDAV THEN SetBearerToken(n.views, n.vf, accessKey)
       ELSE vfsNew(vs, NewFs(<<RemoteName>>, NoToken)).views

(***************************************************************************)
(* The S3 backend (cmd/serve/s3/backend.go).  Each operation is a function *)
(* of the tree and the metadata overlay giving the error it returns, what  *)
(* it returns, and the tree and overlay it leaves.                         *)
(***************************************************************************)
\* the tenant whose WebDAV tree Spec follows
FsAccessKey == "KeyOfUserAlice"

NoRange == [has |-> FALSE, start |-> 0, length |-> 0]
RangeRequests ==
    {NoRange} \cup
    [has : {TRUE}, start : (0 - 1)..MaxBody, length : 1..(MaxBody + 1)]

Merge(a, b) ==
    [h \in DOMAIN a \cup DOMAIN b |-> IF h \in DOMAIN b THEN b[h] ELSE a[h]]

\* swift.FloatStringToTime: the time a float-seconds string denotes, or "err"
ParseableTimes == {"t1", "t2", "now"}
FloatStringToTime(val) == IF val \in ParseableTimes THEN val ELSE "err"
\* swift.TimeToFloatString: the float-seconds string of a time
TimeToFloatString(t) == t

\* rangeRequest.Range(size): no range asked, InvalidRange, or the range with its
\* length clamped to the end of the object
Range(req, size) ==
    IF ~req.has THEN [err |-> "ok", has |-> FALSE, start |-> 0, length |-> size]
    ELSE IF req.start < 0 \/ req.start >= size
        THEN [err |-> "InvalidRange", has |-> FALSE, start |-> 0, length |-> 0]
    ELSE [err |-> "ok", has |-> TRUE, start |-> req.start,
          length |-> IF req.start + req.length > size
                        THEN size - req.start ELSE req.length]

\* in.Seek(start, io.SeekStart): what is left to read
Seek(content, start) == SubSeq(content, start + 1, Len(content))

\* limitReadCloser(rdr, closer, n): at most n bytes of rdr
limitReadCloser(content, n) ==
    IF n < Len(content) THEN SubSeq(content, 1, n) ELSE content

rangeBodyNoSeek(content, rnge) ==
    IF rnge.has THEN limitReadCloser(content, rnge.length) ELSE content

\* GetObject, the body handed back for a range (backend.go:213-224)
rangeBody(content, rnge) ==
    IF rnge.has THEN limitReadCloser(Seek(content, rnge.start), rnge.length)
    ELSE content

\* the stored metadata only fill in headers that are not computed
objectMetaComputedFirst(f, ms, fp) ==
    Merge(IF fp \in DOMAIN ms THEN ms[fp] ELSE EmptyMeta,
          [h \in {"Last-Modified", "Content-Type"} |->
              IF h = "Last-Modified" THEN f.files[fp].mtime ELSE "mime"])

\* HeadObject/GetObject: the computed headers overlaid with the stored metadata
objectMeta(f, ms, fp) ==
    Merge([h \in {"Last-Modified", "Content-Type"} |->
              IF h = "Last-Modified" THEN f.files[fp].mtime ELSE "mime"],
          IF fp \in DOMAIN ms THEN ms[fp] ELSE EmptyMeta)

\* vf.Stat as an operation sees it: with fault "unauthorized" the WebDAV
\* server rejects the request's calls with 401/403 and Stat fails with that
\* error
statAs(f, p, fault) == IF fault = "unauthorized" THEN "Unauthorized" ELSE vfsStat(f, p)

\* no deferred close: an error after file.Open leaves the stream open
getObjectNoDefer(f, ms, bucketName, objectName, rangeRequest, fault) ==
    LET fp == pathJoin(bucketName, objectName)
        none == [err |-> "ok", body |-> <<>>, size |-> 0, meta |-> EmptyMeta,
                 opens |-> 0, closes |-> 0, closer |-> "none"]
        size == Len(f.files[fp].body)
        rnge == Range(rangeRequest, size)
    IN IF statAs(f, <<bucketName>>, fault) \notin {"dir", "file"}
           THEN [none EXCEPT !.err = "NoSuchBucket"]
       ELSE IF statAs(f, fp, fault) # "file" THEN [none EXCEPT !.err = "NoSuchKey"]
       ELSE IF fault = "open" THEN [none EXCEPT !.err = "InternalError"]
       ELSE IF rnge.err # "ok"
           THEN [none EXCEPT !.err = rnge.err, !.opens = 1]
       ELSE IF rnge.has /\ fault = "seek"
           THEN [none EXCEPT !.err = "EIO", !.opens = 1]
       ELSE [err |-> "ok", body |-> rangeBody(f.files[fp].body, rnge),
             size |-> size, meta |-> objectMeta(f, ms, fp),
             opens |-> 1, closes |-> 0,
             closer |-> IF rnge.has THEN "limitReadCloser" ELSE "in"]

\* GetObject with the stream it opens.  opens counts the file.Open calls that
\* succeeded, closes the in.Close calls made before GetObject returns (the
\* deferred function closes when the named result err is not nil), closer
\* is the Contents handed back: the file itself, or limitReadCloser(rdr,
\* in.Close, rnge.Length) for a range.  Faults: file.Open fails, in.Seek
\* fails, every WebDAV call is rejected.
getObjectFault(f, ms, bucketName, objectName, rangeRequest, fault) ==
    LET fp == pathJoin(bucketName, objectName)
        none == [err |-> "ok", body |-> <<>>, size |-> 0, meta |-> EmptyMeta,
                 opens |-> 0, closes |-> 0, closer |-> "none"]
        size == Len(f.files[fp].body)
        rnge == Range(rangeRequest, size)
    IN IF statAs(f, <<bucketName>>, fault) \notin {"dir", "file"}
           THEN [none EXCEPT !.err = "NoSuchBucket"]
       ELSE IF statAs(f, fp, fault) # "file" THEN [none EXCEPT !.err = "NoSuchKey"]
       ELSE IF fault = "open" THEN [none EXCEPT !.err = "InternalError"]
       ELSE IF rnge.err # "ok"
           THEN [none EXCEPT !.err = rnge.err, !.opens = 1, !.closes = 1]
       ELSE IF rnge.has /\ fault = "seek"
           THEN [none EXCEPT !.err = "EIO", !.opens = 1, !.closes = 1]
       ELSE [err |-> "ok", body |-> rangeBody(f.files[fp].body, rnge),
             size |-> size, meta |-> objectMeta(f, ms, fp),
             opens |-> 1, closes |-> 0,
             closer |-> IF rnge.has THEN "limitReadCloser" ELSE "in"]

\* GetObject where nothing fails below it
getObject(f, ms, bucketName, objectName, rangeRequest) ==
    getObjectFault(f, ms, bucketName, objectName, rangeRequest, "none")

\* Contents.Close() of what GetObject or HeadObject handed back: the in.Close
\* calls it makes.  limitReadCloser's Close calls the closer it was given.
closeContents(closer) == IF closer \in {"in", "limitReadCloser"} THEN 1 ELSE 0

\* a directory at the key is answered like a file of size 0
headObjectAnyNode(f, ms, bucketName, objectName, fault) ==
    LET fp == pathJoin(bucketName, objectName)
        none == [err |-> "ok", size |-> 0, meta |-> EmptyMeta,
                 opens |-> 0, closes |-> 0, closer |-> "none"]
    IN IF statAs(f, <<bucketName>>, fault) \notin {"dir", "file"}
           THEN [none EXCEPT !.err = "NoSuchBucket"]
       ELSE IF statAs(f, fp, fault) \notin {"dir", "file"}
           THEN [none EXCEPT !.err = "NoSuchKey"]
       ELSE IF statAs(f, fp, fault) = "dir"
           THEN [none EXCEPT !.closer = "noOpReadCloser"]
       ELSE [none EXCEPT !.size = Len(f.files[fp].body),
                         !.meta = objectMeta(f, ms, fp),
                         !.closer = "noOpReadCloser"]

headObject(f, ms, bucketName, objectName, fault) ==
    LET fp == pathJoin(bucketName, objectName)
        none == [err |-> "ok", size |-> 0, meta |-> EmptyMeta,
                 opens |-> 0, closes |-> 0, closer |-> "none"]
    IN IF statAs(f, <<bucketName>>, fault) \notin {"dir", "file"}
           THEN [none EXCEPT !.err = "NoSuchBucket"]
       ELSE IF statAs(f, fp, fault) # "file" THEN [none EXCEPT !.err = "NoSuchKey"]
       ELSE [none EXCEPT !.size = Len(f.files[fp].body),
                         !.meta = objectMeta(f, ms, fp),
                         !.closer = "noOpReadCloser"]

\* the end of PutObject and TouchObject: store the metadata, then set the
\* modification time when the metadata carries a parseable one
storeAndChtimes(f, ms, fp, meta, fault) ==
    LET has(h) == h \in DOMAIN meta /\ FloatStringToTime(meta[h]) # "err"
        val == IF has("X-Amz-Meta-Mtime") THEN meta["X-Amz-Meta-Mtime"]
               ELSE IF has("mtime") THEN meta["mtime"] ELSE "none"
        ch == vfsChtimes(f, fp, FloatStringToTime(val))
        stored == WithFile(ms, fp, meta)
    IN IF val = "none" THEN [err |-> "ok", fs |-> f, ms |-> stored]
       ELSE IF fault = "chtimes" THEN [err |-> "EIO", fs |-> f, ms |-> stored]
       ELSE [err |-> ch.err, fs |-> ch.fs, ms |-> stored]

TouchObject(f, ms, fp, meta, fault) ==
    LET cr == vfsCreate(f, fp)
    IN IF vfsStat(f, fp) # "ENOENT" THEN storeAndChtimes(f, ms, fp, meta, fault)
       ELSE IF cr.err # "ok" THEN [err |-> cr.err, fs |-> f, ms |-> ms]
       ELSE storeAndChtimes(cr.fs, ms, fp, meta, fault)

\* io.Copy(w, input): the error of reading the body to its end.  The reader
\* the protocol engine hands over verifies a supplied Content-MD5 and fails
\* with BadDigest at the end of a body whose MD5 differs.
ioCopy(fault) ==
    IF fault = "copy" THEN "EIO"
    ELSE IF fault = "digest" THEN "BadDigest"
    ELSE "ok"

\* the file is left as it is when the copy or the close fails
putObjectNoCleanup(f, ms, bucketName, objectName, meta, input, fault) ==
    LET fp == pathJoin(bucketName, objectName)
        objectDir == pathDir(fp)
        mk == mkdirRecursive(f, objectDir)
        cr == vfsCreate(mk.fs, fp)
    IN IF vfsStat(f, <<bucketName>>) = "ENOENT"
           THEN [err |-> "NoSuchBucket", fs |-> f, ms |-> ms]
       ELSE IF mk.err # "ok" THEN [err |-> mk.err, fs |-> mk.fs, ms |-> ms]
       ELSE IF Len(input) = 0 THEN TouchObject(mk.fs, ms, fp, meta, fault)
       ELSE IF cr.err # "ok" THEN [err |-> cr.err, fs |-> mk.fs, ms |-> ms]
       ELSE IF ioCopy(fault) # "ok"
           THEN [err |-> ioCopy(fault), fs |-> vfsWrite(cr.fs, fp, input), ms |-> ms]
       ELSE IF fault = "close"
           THEN [err |-> "EIO", fs |-> vfsWrite(cr.fs, fp, input), ms |-> ms]
       ELSE storeAndChtimes(vfsWrite(cr.fs, fp, input), ms, fp, meta, fault)

\* a body of size 0 is written like any other body
putObjectNoTouch(f, ms, bucketName, objectName, meta, input, fault) ==
    LET fp == pathJoin(bucketName, objectName)
        objectDir == pathDir(fp)
        mk == mkdirRecursive(f, objectDir)
        cr == vfsCreate(mk.fs, fp)
    IN IF vfsStat(f, <<bucketName>>) = "ENOENT"
           THEN [err |-> "NoSuchBucket", fs |-> f, ms |-> ms]
       ELSE IF mk.err # "ok" THEN [err |-> mk.err, fs |-> mk.fs, ms |-> ms]
       ELSE IF cr.err # "ok" THEN [err |-> cr.err, fs |-> mk.fs, ms |-> ms]
       ELSE IF ioCopy(fault) # "ok"
           THEN [err |-> ioCopy(fault), fs |-> vfsRemove(cr.fs, fp).fs, ms |-> ms]
       ELSE IF fault = "close"
           THEN [err |-> "EIO", fs |-> vfsRemove(cr.fs, fp).fs, ms |-> ms]
       ELSE storeAndChtimes(vfsWrite(cr.fs, fp, input), ms, fp, meta, fault)

putObject(f, ms, bucketName, objectName, meta, input, fault) ==
    LET fp == pathJoin(bucketName, objectName)
        objectDir == pathDir(fp)
        mk == mkdirRecursive(f, objectDir)
        cr == vfsCreate(mk.fs, fp)
    IN IF vfsStat(f, <<bucketName>>) = "ENOENT"
           THEN [err |-> "NoSuchBucket", fs |-> f, ms |-> ms]
       ELSE IF mk.err # "ok" THEN [err |-> mk.err, fs |-> mk.fs, ms |-> ms]
       ELSE IF Len(input) = 0 THEN TouchObject(mk.fs, ms, fp, meta, fault)
       ELSE IF cr.err # "ok" THEN [err |-> cr.err, fs |-> mk.fs, ms |-> ms]
       ELSE IF ioCopy(fault) # "ok"
           THEN [err |-> ioCopy(fault), fs |-> vfsRemove(cr.fs, fp).fs, ms |-> ms]
       ELSE IF fault = "close"
           THEN [err |-> "EIO", fs |-> vfsRemove(cr.fs, fp).fs, ms |-> ms]
       ELSE storeAndChtimes(vfsWrite(cr.fs, fp, input), ms, fp, meta, fault)

deleteObjectLockedNoSkip(f, bucketName, objectName) ==
    LET fp == pathJoin(bucketName, objectName)
        rm == vfsRemove(f, fp)
    IN IF vfsStat(f, <<bucketName>>) = "ENOENT" THEN [err |-> "NoSuchBucket", fs |-> f]
       ELSE IF rm.err # "ok" THEN [err |-> rm.err, fs |-> f]
       ELSE [err |-> "ok",
             fs |-> IF CanHaveEmptyDirectories THEN rmdirRecursive(rm.fs, fp) ELSE rm.fs]

\* deleteObjectLocked leaves the parent directories as they are
deleteObjectLockedNoRmdir(f, bucketName, objectName) ==
    LET fp == pathJoin(bucketName, objectName)
        rm == vfsRemove(f, fp)
    IN IF vfsStat(f, <<bucketName>>) = "ENOENT" THEN [err |-> "NoSuchBucket", fs |-> f]
       ELSE IF rm.err \notin {"ok", "ENOENT"} THEN [err |-> rm.err, fs |-> f]
       ELSE [err |-> "ok", fs |-> rm.fs]

deleteObjectLocked(f, bucketName, objectName) ==
    LET fp == pathJoin(bucketName, objectName)
        rm == vfsRemove(f, fp)
    IN IF vfsStat(f, <<bucketName>>) = "ENOENT" THEN [err |-> "NoSuchBucket", fs |-> f]
       ELSE IF rm.err \notin {"ok", "ENOENT"} THEN [err |-> rm.err, fs |-> f]
       ELSE [err |-> "ok",
             fs |-> IF CanHaveEmptyDirectories THEN rmdirRecursive(rm.fs, fp) ELSE rm.fs]

\* the loop ends at the first object that fails
RECURSIVE deleteMultiStop(_, _, _)
deleteMultiStop(f, bucketName, objects) ==
    IF objects = <<>> THEN [err |-> "ok", fs |-> f, Deleted |-> <<>>, Error |-> <<>>]
    ELSE LET object == Head(objects)
             d == deleteObjectLocked(f, bucketName, object)
             rest == deleteMultiStop(d.fs, bucketName, Tail(objects))
         IN IF d.err # "ok"
                THEN [err |-> "ok", fs |-> d.fs, Deleted |-> <<>>,
                      Error |-> <<[Code |-> "InternalError", Key |-> object]>>]
            ELSE [rest EXCEPT !.Deleted = <<object>> \o rest.Deleted]

\* DeleteMulti: the objects are deleted one after the other, each one landing
\* in result.Error (with code ErrInternal) or in result.Deleted
RECURSIVE deleteMulti(_, _, _)
deleteMulti(f, bucketName, objects) ==
    IF objects = <<>> THEN [err |-> "ok", fs |-> f, Deleted |-> <<>>, Error |-> <<>>]
    ELSE LET object == Head(objects)
             d == deleteObjectLocked(f, bucketName, object)
             rest == deleteMulti(d.fs, bucketName, Tail(objects))
         IN IF d.err # "ok"
                THEN [rest EXCEPT !.Error =
                         <<[Code |-> "InternalError", Key |-> object]>> \o rest.Error]
            ELSE [rest EXCEPT !.Deleted = <<object>> \o rest.Deleted]

createBucketNoCheck(f, name, fault) ==
    LET mk == vfsMkdir(f, <<name>>)
    IN IF fault = "stat" THEN [err |-> "InternalError", fs |-> f]
       ELSE IF fault = "mkdir" \/ mk.err # "ok" THEN [err |-> "InternalError", fs |-> f]
       ELSE [err |-> "ok", fs |-> mk.fs]

createBucket(f, name, fault) ==
    LET mk == vfsMkdir(f, <<name>>)
    IN IF fault = "stat" THEN [err |-> "InternalError", fs |-> f]
       ELSE IF vfsStat(f, <<name>>) # "ENOENT" THEN [err |-> "BucketAlreadyExists", fs |-> f]
       ELSE IF fault = "mkdir" \/ mk.err # "ok" THEN [err |-> "InternalError", fs |-> f]
       ELSE [err |-> "ok", fs |-> mk.fs]

\* removes the bucket with everything below it
deleteBucketRemoveAll(f, name) ==
    LET below(q) == Len(q) >= 1 /\ q[1] = name
    IN IF vfsStat(f, <<name>>) = "ENOENT" THEN [err |-> "NoSuchBucket", fs |-> f]
       ELSE [err |-> "ok",
             fs |-> [dirs |-> {q \in f.dirs : ~below(q)},
                     files |-> [q \in {x \in DOMAIN f.files : ~below(x)} |-> f.files[q]]]]

deleteBucket(f, name) ==
    LET rm == vfsRemove(f, <<name>>)
    IN IF vfsStat(f, <<name>>) = "ENOENT" THEN [err |-> "NoSuchBucket", fs |-> f]
       ELSE IF rm.err # "ok" THEN [err |-> "BucketNotEmpty", fs |-> f]
       ELSE [err |-> "ok", fs |-> rm.fs]

bucketExists(f, name) == vfsStat(f, <<name>>) # "ENOENT"

\* the same path is read and written again like any other copy
copyObjectSameStream(f, ms, srcBucket, srcKey, dstBucket, dstKey, meta, fault) ==
    LET fp == pathJoin(srcBucket, srcKey)
        c == getObject(f, ms, srcBucket, srcKey, NoRange)
        merged == [h \in DOMAIN meta \cup (DOMAIN c.meta \ {"X-Amz-Acl"}) |->
                      IF h \in DOMAIN meta THEN meta[h] ELSE c.meta[h]]
        withMtime == IF "mtime" \in DOMAIN merged THEN merged
                     ELSE Merge(merged, [h \in {"mtime"} |->
                                            TimeToFloatString(f.files[fp].mtime)])
    IN IF vfsStat(f, fp) = "ENOENT" THEN [err |-> "ENOENT", fs |-> f, ms |-> ms]
       ELSE IF c.err # "ok" THEN [err |-> c.err, fs |-> f, ms |-> ms]
       ELSE putObject(f, ms, dstBucket, dstKey, withMtime, c.body, fault)

\* the metadata of the source win over the ones the caller gives
copyObjectSourceFirst(f, ms, srcBucket, srcKey, dstBucket, dstKey, meta, fault) ==
    LET fp == pathJoin(srcBucket, srcKey)
        stored == WithFile(ms, fp, meta)
        val == IF "X-Amz-Meta-Mtime" \in DOMAIN meta THEN meta["X-Amz-Meta-Mtime"]
               ELSE IF "mtime" \in DOMAIN meta THEN meta["mtime"] ELSE "none"
        ch == vfsChtimes(f, fp, FloatStringToTime(val))
        c == getObject(f, ms, srcBucket, srcKey, NoRange)
        merged == [h \in DOMAIN meta \cup (DOMAIN c.meta \ {"X-Amz-Acl"}) |->
                      IF h \in DOMAIN c.meta \ {"X-Amz-Acl"} THEN c.meta[h] ELSE meta[h]]
        withMtime == IF "mtime" \in DOMAIN merged THEN merged
                     ELSE Merge(merged, [h \in {"mtime"} |->
                                            TimeToFloatString(f.files[fp].mtime)])
    IN IF srcBucket = dstBucket /\ srcKey = dstKey
           THEN IF val = "none" \/ FloatStringToTime(val) = "err"
                    THEN [err |-> "ok", fs |-> f, ms |-> stored]
                ELSE IF fault = "chtimes" THEN [err |-> "EIO", fs |-> f, ms |-> stored]
                ELSE [err |-> ch.err, fs |-> ch.fs, ms |-> stored]
       ELSE IF vfsStat(f, fp) = "ENOENT" THEN [err |-> "ENOENT", fs |-> f, ms |-> ms]
       ELSE IF c.err # "ok" THEN [err |-> c.err, fs |-> f, ms |-> ms]
       ELSE putObject(f, ms, dstBucket, dstKey, withMtime, c.body, fault)

copyObject(f, ms, srcBucket, srcKey, dstBucket, dstKey, meta, fault) ==
    LET fp == pathJoin(srcBucket, srcKey)
        stored == WithFile(ms, fp, meta)
        val == IF "X-Amz-Meta-Mtime" \in DOMAIN meta THEN meta["X-Amz-Meta-Mtime"]
               ELSE IF "mtime" \in DOMAIN meta THEN meta["mtime"] ELSE "none"
        ch == vfsChtimes(f, fp, FloatStringToTime(val))
        c == getObject(f, ms, srcBucket, srcKey, NoRange)
        merged == [h \in DOMAIN meta \cup (DOMAIN c.meta \ {"X-Amz-Acl"}) |->
                      IF h \in DOMAIN meta THEN meta[h] ELSE c.meta[h]]
        withMtime == IF "mtime" \in DOMAIN merged THEN merged
                     ELSE Merge(merged, [h \in {"mtime"} |->
                                            TimeToFloatString(f.files[fp].mtime)])
    IN IF srcBucket = dstBucket /\ srcKey = dstKey
           THEN IF val = "none" \/ FloatStringToTime(val) = "err"
                    THEN [err |-> "ok", fs |-> f, ms |-> stored]
                ELSE IF fault = "chtimes" THEN [err |-> "EIO", fs |-> f, ms |-> stored]
                ELSE [err |-> ch.err, fs |-> ch.fs, ms |-> stored]
       ELSE IF vfsStat(f, fp) = "ENOENT" THEN [err |-> "ENOENT", fs |-> f, ms |-> ms]
       ELSE IF c.err # "ok" THEN [err |-> c.err, fs |-> f, ms |-> ms]
       ELSE putObject(f, ms, dstBucket, dstKey, withMtime, c.body, fault)

(***************************************************************************)
(* Listing: ListBuckets, ListBucket and the tree walk entryListR.  A       *)
(* response holds bags, so that an item added twice shows.                 *)
(***************************************************************************)
\* getDirEntries(prefix, vf): the entries of a directory; a path that does
\* not exist surfaces as ENOENT
getDirEntries(f, p) ==
    IF vfsStat(f, p) = "ENOENT" THEN [err |-> "ENOENT", entries |-> {}]
    ELSE IF vfsStat(f, p) = "file" THEN [err |-> "ENOTDIR", entries |-> {}]
    ELSE [err |-> "ok", entries |-> Children(f, p)]

IsDir(f, q) == q \in f.dirs

listBucketsAll(f) ==
    LET de == getDirEntries(f, <<>>)
    IN IF de.err # "ok" THEN [err |-> de.err, buckets |-> EmptyBag]
       ELSE [err |-> "ok",
             buckets |-> [k \in {URLEncode(Spell(q[1])) : q \in de.entries} |-> 1]]

listBuckets(f) ==
    LET de == getDirEntries(f, <<>>)
    IN IF de.err # "ok" THEN [err |-> de.err, buckets |-> EmptyBag]
       ELSE [err |-> "ok",
             buckets |-> [k \in {URLEncode(Spell(q[1])) :
                                    q \in {e \in de.entries : IsDir(f, e)}} |-> 1]]

\* gofakes3.NewObjectList() and what entryListR hands back
NewObjectList == [err |-> "ok", contents |-> EmptyBag, prefixes |-> EmptyBag]
ListError(err) == [NewObjectList EXCEPT !.err = err]

\* two walks put together: the first error, else all the items of both
\* (applied to the two responses once they are known)
Both(a, b) ==
    IF a.err # "ok" THEN ListError(a.err)
    ELSE IF b.err # "ok" THEN ListError(b.err)
    ELSE [err |-> "ok", contents |-> a.contents (+) b.contents,
          prefixes |-> a.prefixes (+) b.prefixes]

\* prefixParser(prefix): the prefix split at its last "/"
prefixParser(prefix) ==
    LET slashes == {i \in 1..Len(prefix) : prefix[i] = "/"}
        idx == CHOOSE i \in slashes : \A j \in slashes : j <= i
    IN IF slashes = {} THEN [path |-> <<>>, remaining |-> prefix]
       ELSE [path |-> SubSeq(prefix, 1, idx - 1),
             remaining |-> SubSeq(prefix, idx + 1, Len(prefix))]

RECURSIVE entryListR(_, _, _, _, _)
RECURSIVE listEntries(_, _, _, _, _, _)

\* directories are walked into even when grouping is asked for
listEntriesNoGroup(f, bucket, fdPath, name, addPrefix, entries) ==
    IF entries = {} THEN NewObjectList
    ELSE LET q == CHOOSE e \in entries : TRUE
             object == Spell(q[Len(q)])
             objectPath == pathJoinStr(fdPath, object)
             one == IF ~HasPrefix(object, name) THEN NewObjectList
                    ELSE IF IsDir(f, q)
                        THEN entryListR(f, bucket, pathJoinStr(fdPath, object), <<>>, FALSE)
                    ELSE [NewObjectList EXCEPT
                             !.contents = SetToBag({URLEncode(objectPath)})]
         IN CHOOSE r \in {Both(a, b) :
                a \in {one},
                b \in {listEntries(f, bucket, fdPath, name, addPrefix, entries \ {q})}} : TRUE

\* directories are never walked into
listEntriesNoRecurse(f, bucket, fdPath, name, addPrefix, entries) ==
    IF entries = {} THEN NewObjectList
    ELSE LET q == CHOOSE e \in entries : TRUE
             object == Spell(q[Len(q)])
             objectPath == pathJoinStr(fdPath, object)
             one == IF ~HasPrefix(object, name) THEN NewObjectList
                    ELSE IF IsDir(f, q)
                        THEN IF addPrefix
                                 THEN [NewObjectList EXCEPT
                                          !.prefixes = SetToBag({URLEncode(objectPath)})]
                             ELSE NewObjectList
                    ELSE [NewObjectList EXCEPT
                             !.contents = SetToBag({URLEncode(objectPath)})]
         IN CHOOSE r \in {Both(a, b) :
                a \in {one},
                b \in {listEntries(f, bucket, fdPath, name, addPrefix, entries \ {q})}} : TRUE

\* the key is put into the response as it is
listEntriesRawKey(f, bucket, fdPath, name, addPrefix, entries) ==
    IF entries = {} THEN NewObjectList
    ELSE LET q == CHOOSE e \in entries : TRUE
             object == Spell(q[Len(q)])
             objectPath == pathJoinStr(fdPath, object)
             one == IF ~HasPrefix(object, name) THEN NewObjectList
                    ELSE IF IsDir(f, q)
                        THEN IF addPrefix
                                 THEN [NewObjectList EXCEPT
                                          !.prefixes = SetToBag({URLEncodeRaw(objectPath)})]
                             ELSE entryListR(f, bucket, pathJoinStr(fdPath, object), <<>>, FALSE)
                    ELSE [NewObjectList EXCEPT
                             !.contents = SetToBag({URLEncodeRaw(objectPath)})]
         IN CHOOSE r \in {Both(a, b) :
                a \in {one},
                b \in {listEntries(f, bucket, fdPath, name, addPrefix, entries \ {q})}} : TRUE

\* entryListR, the loop over the entries of the directory (part_002:19-48)
listEntries(f, bucket, fdPath, name, addPrefix, entries) ==
    IF entries = {} THEN NewObjectList
    ELSE LET q == CHOOSE e \in entries : TRUE
             object == Spell(q[Len(q)])
             objectPath == pathJoinStr(fdPath, object)
             one == IF ~HasPrefix(object, name) THEN NewObjectList
                    ELSE IF IsDir(f, q)
                        THEN IF addPrefix
                                 THEN [NewObjectList EXCEPT
                                          !.prefixes = SetToBag({URLEncode(objectPath)})]
                             ELSE entryListR(f, bucket, pathJoinStr(fdPath, object), <<>>, FALSE)
                    ELSE [NewObjectList EXCEPT
                             !.contents = SetToBag({URLEncode(objectPath)})]
         IN CHOOSE r \in {Both(a, b) :
                a \in {one},
                b \in {listEntries(f, bucket, fdPath, name, addPrefix, entries \ {q})}} : TRUE

entryListR(f, bucket, fdPath, name, addPrefix) ==
    LET de == getDirEntries(f, Resolve(bucket, fdPath))
    IN IF de.err # "ok" THEN ListError(de.err)
       ELSE listEntries(f, bucket, fdPath, name, addPrefix, de.entries)

\* db.pager(response, page) for a page without marker that holds every item
pager(response) == response

\* webdav: Features().BucketBased
BucketBased == FALSE

Delimiters == {<<>>, <<"/">>}

listBucket(f, bucket, prefix, delimiter) ==
    LET HasDelimiter == delimiter # <<>>
        pp == prefixParser(prefix)
    IN IF vfsStat(f, <<bucket>>) = "ENOENT" THEN ListError("NoSuchBucket")
       ELSE CHOOSE out \in {IF r.err # "ok" THEN ListError(r.err) ELSE pager(r) :
                  r \in {entryListR(f, bucket, pp.path, pp.remaining, HasDelimiter)}} : TRUE

(***************************************************************************)
(* Spec: the backend operations as actions on one tenant's tree.  Every    *)
(* operation first binds the tenant's VFS (setAuthForWebDAV) and records   *)
(* in result what it was given and what it returned; pre is the tree it    *)
(* found.                                                                  *)
(***************************************************************************)
NoResult ==
    [op |-> "none", bucket |-> "", key |-> <<>>, err |-> "ok", body |-> <<>>,
     size |-> 0, rnge |-> NoRange, input |-> <<>>, meta |-> EmptyMeta,
     exists |-> FALSE, fault |-> "none", pre |-> EmptyFs,
     buckets |-> EmptyBag, contents |-> EmptyBag, prefixes |-> EmptyBag,
     prefix |-> <<>>, delimiter |-> <<>>, preMeta |-> EmptyFiles,
     srcBucket |-> "", srcKey |-> <<>>,
     opens |-> 0, closes |-> 0, closer |-> "none",
     objects |-> <<>>, Deleted |-> <<>>, Error |-> <<>>, accessKey |-> ""]

\* trees the WebDAV server may hold when the proxy starts
InitTrees ==
    {EmptyFs,
     [dirs |-> {<<"b1">>, <<"b1", "d">>, <<"b1", "d", "e">>}, files |-> EmptyFiles]}

Metas == {EmptyMeta}
PutFaults == {"none", "copy", "close"}
BucketFaults == {"none", "stat", "mkdir"}

NoFs == [name |-> <<>>, token |-> NoToken, madeFor |-> NoToken, rewritten |-> FALSE]

\* a request context without values, as the HTTP server hands it over
NoCtx == [ctxKeyId |-> 0, ctxKeyAuth |-> 0]

\* no request is inside the backend
ConcIdle ==
    /\ lock = 0
    /\ stack = [r \in Requests |-> <<>>]
    /\ reqCtx = [r \in Requests |-> NoCtx]

\* Spec follows no separate requests: every operation runs to its end at once
AuthIdle ==
    /\ ConcIdle
    /\ pc = [r \in Requests |-> "done"]
    /\ reqHeader = [r \in Requests |-> [credential |-> FsAccessKey, signature |-> "secret1"]]
    /\ newFs = [r \in Requests |-> NoFs]
    /\ vfOf = [r \in Requests |-> 0]
    /\ calls = [r \in Requests |-> 0]
    /\ webdavLog = {}

Init ==
    /\ fs \in InitTrees
    /\ tmpMetaStorage = EmptyFiles
    /\ result = NoResult
    /\ views = <<>>
    /\ AuthIdle

Bind == views' = setAuthForWebDAV(views, FsAccessKey)

\* the read drops the stored metadata of the path
GetObjectForgets(bucketName, objectName, rangeRequest, fault) ==
    LET r == getObjectFault(fs, tmpMetaStorage, bucketName, objectName, rangeRequest, fault)
    IN /\ Bind
       /\ result' = [NoResult EXCEPT !.op = "GetObject", !.bucket = bucketName,
                        !.key = objectName, !.rnge = rangeRequest, !.err = r.err,
                        !.body = r.body, !.size = r.size, !.meta = r.meta,
                        !.fault = fault, !.opens = r.opens, !.closes = r.closes,
                        !.closer = r.closer, !.pre = fs, !.preMeta = tmpMetaStorage]
       /\ tmpMetaStorage' = WithoutFile(tmpMetaStorage, pathJoin(bucketName, objectName))
       /\ UNCHANGED <<fs, authVars>>

GetObject(bucketName, objectName, rangeRequest, fault) ==
    LET r == getObjectFault(fs, tmpMetaStorage, bucketName, objectName, rangeRequest, fault)
    IN /\ Bind
       /\ result' = [NoResult EXCEPT !.op = "GetObject", !.bucket = bucketName,
                        !.key = objectName, !.rnge = rangeRequest, !.err = r.err,
                        !.body = r.body, !.size = r.size, !.meta = r.meta,
                        !.fault = fault, !.opens = r.opens, !.closes = r.closes,
                        !.closer = r.closer, !.pre = fs, !.preMeta = tmpMetaStorage]
       /\ UNCHANGED <<fs, tmpMetaStorage, authVars>>

HeadObject(bucketName, objectName, fault) ==
    LET r == headObject(fs, tmpMetaStorage, bucketName, objectName, fault)
    IN /\ Bind
       /\ result' = [NoResult EXCEPT !.op = "HeadObject", !.bucket = bucketName,
                        !.key = objectName, !.err = r.err, !.size = r.size,
                        !.meta = r.meta, !.fault = fault, !.opens = r.opens,
                        !.closes = r.closes, !.closer = r.closer, !.pre = fs,
                        !.preMeta = tmpMetaStorage]
       /\ UNCHANGED <<fs, tmpMetaStorage, authVars>>

DeleteMulti(bucketName, objects) ==
    \E r \in {deleteMulti(fs, bucketName, objects)} :
       /\ Bind
       /\ fs' = r.fs
       /\ result' = [NoResult EXCEPT !.op = "DeleteMulti", !.bucket = bucketName,
                        !.objects = objects, !.err = r.err, !.Deleted = r.Deleted,
                        !.Error = r.Error, !.pre = fs]
       /\ UNCHANGED <<tmpMetaStorage, authVars>>

PutObject(bucketName, objectName, meta, input, fault) ==
    LET r == putObject(fs, tmpMetaStorage, bucketName, objectName, meta, input, fault)
    IN /\ Bind
       /\ fs' = r.fs
       /\ tmpMetaStorage' = r.ms
       /\ result' = [NoResult EXCEPT !.op = "PutObject", !.bucket = bucketName,
                        !.key = objectName, !.input = input, !.meta = meta,
                        !.size = Len(input), !.fault = fault, !.err = r.err,
                        !.pre = fs, !.preMeta = tmpMetaStorage]
       /\ UNCHANGED authVars

DeleteObject(bucketName, objectName) ==
    LET r == deleteObjectLocked(fs, bucketName, objectName)
    IN /\ Bind
       /\ fs' = r.fs
       /\ result' = [NoResult EXCEPT !.op = "DeleteObject", !.bucket = bucketName,
                        !.key = objectName, !.err = r.err, !.pre = fs]
       /\ UNCHANGED <<tmpMetaStorage, authVars>>

CreateBucket(name, fault) ==
    LET r == createBucket(fs, name, fault)
    IN /\ Bind
       /\ fs' = r.fs
       /\ result' = [NoResult EXCEPT !.op = "CreateBucket", !.bucket = name,
                        !.fault = fault, !.err = r.err, !.pre = fs]
       /\ UNCHANGED <<tmpMetaStorage, authVars>>

DeleteBucket(name) ==
    LET r == deleteBucket(fs, name)
    IN /\ Bind
       /\ fs' = r.fs
       /\ result' = [NoResult EXCEPT !.op = "DeleteBucket", !.bucket = name,
                        !.err = r.err, !.pre = fs]
       /\ UNCHANGED <<tmpMetaStorage, authVars>>

BucketExists(name) ==
    /\ Bind
    /\ result' = [NoResult EXCEPT !.op = "BucketExists", !.bucket = name,
                     !.exists = bucketExists(fs, name), !.pre = fs]
    /\ UNCHANGED <<fs, tmpMetaStorage, authVars>>

\* the keys objects are put at (ObjectKeys adds the directory "d")
PutKeys == {<<"x">>, <<"d", "e", "x">>}

\* a fault is injected only into a step the operation takes
PutInputs ==
    {in \in [body : Bodies, fault : PutFaults] : in.fault # "none" => Len(in.body) > 0}

Next ==
    \/ \E b \in ObjectBuckets, k \in ObjectKeys : GetObject(b, k, NoRange, "none")
    \/ \E b \in ObjectBuckets, k \in PutKeys, m \in Metas, in \in PutInputs :
          PutObject(b, k, m, in.body, in.fault)
    \/ \E b \in ObjectBuckets, k \in ObjectKeys : DeleteObject(b, k)
    \/ \E n \in Buckets, ft \in BucketFaults : CreateBucket(n, ft)
    \/ \E n \in Buckets : DeleteBucket(n)
    \/ \E n \in Buckets : BucketExists(n)

Spec == Init /\ [][Next]_vars

(***************************************************************************)
(* SpecRange: range reads of an object of every length.                    *)
(***************************************************************************)
\* file.Open fails, in.Seek fails
GetFaults == {"none", "open", "seek"}

RangeTrees ==
    {[dirs |-> {<<"b1">>},
      files |-> (<<"b1", "x">> :> [body |-> body, mtime |-> "now"])] : body \in Bodies}

InitRange ==
    /\ fs \in RangeTrees
    /\ tmpMetaStorage = EmptyFiles
    /\ result = NoResult
    /\ views = <<>>
    /\ AuthIdle

NextRange ==
    \/ \E b \in ObjectBuckets, k \in ObjectKeys, rr \in RangeRequests, ft \in GetFaults :
          GetObject(b, k, rr, ft)
    \/ \E b \in ObjectBuckets, in \in PutInputs : PutObject(b, <<"x">>, EmptyMeta, in.body, in.fault)

SpecRange == InitRange /\ [][NextRange]_vars


(***************************************************************************)
(* SpecList: listings of the trees made of some of the candidate files     *)
(* and directories (a file at the root, objects at several depths, names   *)
(* that need escaping, empty directories).                                 *)
(***************************************************************************)
ListFiles ==
    {<<"b1", "x">>, <<"b1", "dx">>, <<"b1", "d", "x">>,
     <<"b1", "d", "e", "x">>, <<"b1", "w", "q">>}
\* a file in the root, a second bucket and empty directories
ListRootFiles == {<<"f">>}
ListDirs == {<<"w">>, <<"b1", "d">>, <<"b1", "d", "e">>}

Ancestors(p) == {SubSeq(p, 1, i) : i \in 1..(Len(p) - 1)}

ListTrees ==
    {[dirs |-> {<<"b1">>} \cup extra \cup UNION {Ancestors(p) : p \in files},
      files |-> [p \in files \cup (IF extra = {} THEN {} ELSE ListRootFiles) |->
                    [body |-> <<>>, mtime |-> "now"]]] :
        files \in SUBSET ListFiles, extra \in {{}, ListDirs}}

PrefixAlphabet == {"d", "/"}
ListPrefixes ==
    UNION {[1..n -> PrefixAlphabet] : n \in 0..MaxPrefix}
        \cup {<<"x">>, <<"d", "/", "x">>, <<"d", "/", "e", "/">>, <<"d", "/", "/">>,
              Spell("w") \o <<"/">>, Spell("w") \o <<"/", "%">>}

InitList ==
    /\ fs \in ListTrees
    /\ tmpMetaStorage = EmptyFiles
    /\ result = NoResult
    /\ views = <<>>
    /\ AuthIdle

ListBuckets ==
    LET r == listBuckets(fs)
    IN /\ Bind
       /\ result' = [NoResult EXCEPT !.op = "ListBuckets", !.err = r.err,
                        !.buckets = r.buckets, !.pre = fs]
       /\ UNCHANGED <<fs, tmpMetaStorage, authVars>>

ListBucket(bucket, prefix, delimiter) ==
    \E r \in {listBucket(fs, bucket, prefix, delimiter)} :
       /\ Bind
       /\ result' = [NoResult EXCEPT !.op = "ListBucket", !.bucket = bucket,
                        !.prefix = prefix, !.delimiter = delimiter, !.err = r.err,
                        !.contents = r.contents, !.prefixes = r.prefixes,
                        !.pre = fs]
       /\ UNCHANGED <<fs, tmpMetaStorage, authVars>>

NextList ==
    \/ ListBuckets
    \/ \E p \in ListPrefixes, dl \in Delimiters : ListBucket("b1", p, dl)
    \/ ListBucket("b2", <<>>, <<>>)

SpecList == InitList /\ [][NextList]_vars

(***************************************************************************)
(* SpecMeta: writes of one key with user metadata: PutObject and its touch *)
(* path, CopyObject onto the same path, with a Content-MD5 that does not   *)
(* match, a copy or close that fails, and a chtimes that fails.            *)
(***************************************************************************)
CopyObject(srcBucket, srcKey, dstBucket, dstKey, meta, fault) ==
    LET r == copyObject(fs, tmpMetaStorage, srcBucket, srcKey, dstBucket, dstKey, meta, fault)
    IN /\ Bind
       /\ fs' = r.fs
       /\ tmpMetaStorage' = r.ms
       /\ result' = [NoResult EXCEPT !.op = "CopyObject", !.bucket = dstBucket,
                        !.key = dstKey, !.srcBucket = srcBucket, !.srcKey = srcKey,
                        !.meta = meta, !.fault = fault,
                        !.err = r.err, !.pre = fs, !.preMeta = tmpMetaStorage]
       /\ UNCHANGED authVars

MetaOf(xamz, mtime) ==
    [h \in (IF xamz = "absent" THEN {} ELSE {"X-Amz-Meta-Mtime"})
             \cup (IF mtime = "absent" THEN {} ELSE {"mtime"}) |->
        IF h = "mtime" THEN mtime ELSE xamz]

\* metadata without a time, with either header, with an X-Amz-Meta-Mtime
\* that does not parse next to an mtime that does, and with an mtime that
\* does not parse
MetaInputs ==
    {EmptyMeta, MetaOf("absent", "t1"), MetaOf("t2", "absent"),
     MetaOf("bad", "t1"), MetaOf("absent", "bad"),
     [h \in {"Content-Type", "Last-Modified"} |-> "custom"]}

HasTime(meta) == \E h \in DOMAIN meta : FloatStringToTime(meta[h]) # "err"

MetaBodies == {Body(0), Body(MaxBody), BodyRev(MaxBody)}
MetaFaults == {"none", "copy", "close", "digest", "chtimes"}

\* a copy or close fails only for a body that is written, a chtimes only
\* when the metadata makes the operation call it
MetaPutInputs ==
    {in \in [body : MetaBodies, meta : MetaInputs, fault : MetaFaults] :
        /\ in.fault \in {"copy", "close"} => Len(in.body) > 0
        /\ in.fault = "chtimes" => HasTime(in.meta)}

MetaCopyInputs ==
    {in \in [meta : MetaInputs, fault : {"none", "chtimes"}] :
        in.fault = "chtimes" => HasTime(in.meta)}

MetaTrees == {[dirs |-> {<<"b1">>}, files |-> EmptyFiles]}

InitMeta ==
    /\ fs \in MetaTrees
    /\ tmpMetaStorage = EmptyFiles
    /\ result = NoResult
    /\ views = <<>>
    /\ AuthIdle

NextMeta ==
    \/ \E in \in MetaPutInputs : PutObject("b1", <<"x">>, in.meta, in.body, in.fault)
    \/ \E in \in MetaCopyInputs : CopyObject("b1", <<"x">>, "b1", <<"x">>, in.meta, in.fault)
    \/ GetObject("b1", <<"x">>, NoRange, "none")
    \/ HeadObject("b1", <<"x">>, "none")
    \/ DeleteObject("b1", <<"x">>)
    \/ ListBuckets
    \/ \E dl \in Delimiters : ListBucket("b1", <<>>, dl)
    \/ \E n \in Buckets : BucketExists(n)

SpecMeta == InitMeta /\ [][NextMeta]_vars

(***************************************************************************)
(* SpecTree: reads and deletes on trees with nested directories: objects   *)
(* below d and d/e, empty directories, a file in the root, a missing       *)
(* bucket, and a WebDAV server that rejects the token.                     *)
(***************************************************************************)
TreeTrees ==
    {t \in ListTrees : DOMAIN t.files \cap {<<"b1", "dx">>, <<"b1", "w", "q">>} = {}}

\* "b2" is missing in every tree, "f" names a file in the root of some
TreeBuckets == {"b1", "b2", "f"}
TreeKeys == {<<"x">>, <<"d">>, <<"d", "x">>, <<"d", "e", "x">>}
MultiKeys == {<<"x">>, <<"d">>, <<"d", "e", "x">>}
KeyLists == UNION {[1..n -> MultiKeys] : n \in 0..MaxKeys}
HeadFaults == {"none", "unauthorized"}

InitTree ==
    /\ fs \in TreeTrees
    /\ tmpMetaStorage = EmptyFiles
    /\ result = NoResult
    /\ views = <<>>
    /\ AuthIdle

NextTree ==
    \/ \E b \in TreeBuckets, k \in TreeKeys, ft \in HeadFaults : HeadObject(b, k, ft)
    \/ \E b \in TreeBuckets, k \in TreeKeys, ft \in HeadFaults : GetObject(b, k, NoRange, ft)
    \/ \E b \in TreeBuckets, k \in TreeKeys : DeleteObject(b, k)
    \/ \E b \in {"b1", "b2"}, objects \in KeyLists : DeleteMulti(b, objects)

SpecTree == InitTree /\ [][NextTree]_vars

(***************************************************************************)
(* SpecCopy: CopyObject from b1/x to b1/y, for sources and destinations    *)
(* written with and without metadata and with and without a body.          *)
(***************************************************************************)
\* what the source and the destination are written with
CopyPutMetas ==
    {EmptyMeta, MetaOf("absent", "bad"), MetaOf("t2", "t1"),
     [h \in {"X-Amz-Acl", "Content-Type"} |-> "custom"]}

\* what the copy is given
CopyMetas ==
    {EmptyMeta, MetaOf("absent", "t2"), [h \in {"Content-Type"} |-> "given"]}

CopyBodies == {Body(0), Body(MaxBody)}

InitCopy ==
    /\ fs \in MetaTrees
    /\ tmpMetaStorage = EmptyFiles
    /\ result = NoResult
    /\ views = <<>>
    /\ AuthIdle

NextCopy ==
    \/ \E m \in CopyPutMetas, body \in CopyBodies :
          PutObject("b1", <<"x">>, m, body, "none")
    \/ \E body \in {Body(0), BodyRev(MaxBody)} :
          PutObject("b1", <<"y">>, EmptyMeta, body, "none")
    \/ \E m \in CopyMetas, ft \in {"none", "close"} :
          CopyObject("b1", <<"x">>, "b1", <<"y">>, m, ft)
    \/ GetObject("b1", <<"y">>, NoRange, "none")

SpecCopy == InitCopy /\ [][NextCopy]_vars

(***************************************************************************)
(* SpecTenants: two identities, each with its own WebDAV tree, address the *)
(* same bucket and key.  fs maps an access key to the tree its bearer      *)
(* token reaches; tmpMetaStorage is the one map of the process.            *)
(***************************************************************************)
\* user metadata that name the identity that stored them
TenantMeta(accessKey) == [h \in {"X-Amz-Meta-Owner"} |-> accessKey]

TenantTrees ==
    {[dirs |-> {<<"b1">>}, files |-> EmptyFiles],
     [dirs |-> {<<"b1">>},
      files |-> (<<"b1", "x">> :> [body |-> BodyRev(MaxBody), mtime |-> "now"])]}

PutObjectAs(accessKey, bucketName, objectName, meta, input) ==
    LET r == putObject(fs[accessKey], tmpMetaStorage, bucketName, objectName,
                       meta, input, "none")
    IN /\ views' = setAuthForWebDAV(views, accessKey)
       /\ fs' = [fs EXCEPT ![accessKey] = r.fs]
       /\ tmpMetaStorage' = r.ms
       /\ result' = [NoResult EXCEPT !.op = "PutObject", !.accessKey = accessKey,
                        !.bucket = bucketName, !.key = objectName, !.input = input,
                        !.meta = meta, !.size = Len(input), !.err = r.err,
                        !.preMeta = tmpMetaStorage]
       /\ UNCHANGED authVars

HeadObjectAs(accessKey, bucketName, objectName) ==
    LET r == headObject(fs[accessKey], tmpMetaStorage, bucketName, objectName, "none")
    IN /\ views' = setAuthForWebDAV(views, accessKey)
       /\ result' = [NoResult EXCEPT !.op = "HeadObject", !.accessKey = accessKey,
                        !.bucket = bucketName, !.key = objectName, !.err = r.err,
                        !.size = r.size, !.meta = r.meta, !.closer = r.closer,
                        !.preMeta = tmpMetaStorage]
       /\ UNCHANGED <<fs, tmpMetaStorage, authVars>>

GetObjectAs(accessKey, bucketName, objectName) ==
    LET r == getObject(fs[accessKey], tmpMetaStorage, bucketName, objectName, NoRange)
    IN /\ views' = setAuthForWebDAV(views, accessKey)
       /\ result' = [NoResult EXCEPT !.op = "GetObject", !.accessKey = accessKey,
                        !.bucket = bucketName, !.key = objectName, !.err = r.err,
                        !.body = r.body, !.size = r.size, !.meta = r.meta,
                        !.opens = r.opens, !.closes = r.closes, !.closer = r.closer,
                        !.preMeta = tmpMetaStorage]
       /\ UNCHANGED <<fs, tmpMetaStorage, authVars>>

DeleteObjectAs(accessKey, bucketName, objectName) ==
    LET r == deleteObjectLocked(fs[accessKey], bucketName, objectName)
    IN /\ views' = setAuthForWebDAV(views, accessKey)
       /\ fs' = [fs EXCEPT ![accessKey] = r.fs]
       /\ result' = [NoResult EXCEPT !.op = "DeleteObject", !.accessKey = accessKey,
                        !.bucket = bucketName, !.key = objectName, !.err = r.err]
       /\ UNCHANGED <<tmpMetaStorage, authVars>>

InitTenants ==
    /\ fs \in [AccessKeys -> TenantTrees]
    /\ tmpMetaStorage = EmptyFiles
    /\ result = NoResult
    /\ views = <<>>
    /\ AuthIdle

NextTenants ==
    \E k \in AccessKeys :
        \/ \E m \in {EmptyMeta, TenantMeta(k)}, body \in {Body(0), Body(MaxBody)} :
              PutObjectAs(k, "b1", <<"x">>, m, body)
        \/ HeadObjectAs(k, "b1", <<"x">>)
        \/ GetObjectAs(k, "b1", <<"x">>)
        \/ DeleteObjectAs(k, "b1", <<"x">>)

SpecTenants == InitTenants /\ [][NextTenants]_vars

(***************************************************************************)
(* SpecTouch: TouchObject statement by statement.  The results of vf.Stat  *)
(* and vf.Create are those of the WebDAV server behind the VFS: Stat tells *)
(* the truth, reports ENOENT from a listing that does not show the file    *)
(* yet, or fails; Create succeeds or fails.  The frame counts the          *)
(* re-invocations up to MaxDepth, which stands for MaxDepth or more.       *)
(***************************************************************************)
TouchTrees ==
    {[dirs |-> {<<"b1">>}, files |-> EmptyFiles],
     [dirs |-> {<<"b1">>},
      files |-> (<<"b1", "x">> :> [body |-> Body(1), mtime |-> "now"])]}

TouchPaths == {<<"b1", "x">>, <<"b1", "y">>}
TouchMetas == {EmptyMeta, [h \in {"X-Amz-Meta-Mtime"} |-> "1.5"]}

\* what vf.Stat(fp) may answer
StatResults(f, p) ==
    {IF vfsStat(f, p) = "ENOENT" THEN "ENOENT" ELSE "ok", "ENOENT", "EIO"}

topOf(r) == Head(stack[r])
inTouch(r, at) == stack[r] # <<>> /\ topOf(r).fn = "TouchObject" /\ topOf(r).at = at
setTop(r, frame) == stack' = [stack EXCEPT ![r] = <<frame>> \o Tail(stack[r])]

\* db.TouchObject(accessKey, fp, meta) is entered
TouchCall(r, fp, meta) ==
    /\ stack[r] = <<>>
    /\ stack' = [stack EXCEPT ![r] = <<[fn |-> "TouchObject", at |-> "stat", fp |-> fp,
                                        meta |-> meta, depth |-> 0, err |-> "ok"]>>]
    /\ Bind
    /\ UNCHANGED <<fsVars, pc, reqHeader, newFs, vfOf, calls, webdavLog, lock, reqCtx>>

\* _, err = vf.Stat(fp) and the branch on err
TouchStat(r, st) ==
    /\ inTouch(r, "stat")
    /\ st \in StatResults(fs, topOf(r).fp)
    /\ setTop(r, IF st = "ENOENT" THEN [topOf(r) EXCEPT !.at = "create"]
                 ELSE IF st # "ok" THEN [topOf(r) EXCEPT !.at = "returned", !.err = st]
                 ELSE [topOf(r) EXCEPT !.at = "stat2"])
    /\ UNCHANGED <<fsVars, views, pc, reqHeader, newFs, vfOf, calls, webdavLog, lock, reqCtx>>

\* f, err := vf.Create(fp); _ = f.Close(); return db.TouchObject(accessKey, fp, meta)
TouchCreate(r, fails) ==
    LET cr == vfsCreate(fs, topOf(r).fp)
        d == topOf(r).depth
    IN /\ inTouch(r, "create")
       /\ IF fails \/ cr.err # "ok"
              THEN /\ setTop(r, [topOf(r) EXCEPT !.at = "returned",
                                    !.err = IF fails THEN "EIO" ELSE cr.err])
                   /\ UNCHANGED <<fs, views>>
              ELSE /\ fs' = cr.fs
                   /\ setTop(r, [topOf(r) EXCEPT !.at = "stat",
                                    !.depth = IF d < MaxDepth THEN d + 1 ELSE MaxDepth])
                   /\ Bind
       /\ UNCHANGED <<tmpMetaStorage, result, pc, reqHeader, newFs, vfOf, calls,
                      webdavLog, lock, reqCtx>>

\* the second vf.Stat(fp), tmpMetaStorage.Store(fp, meta) and vf.Chtimes
TouchStore(r, st) ==
    LET fp == topOf(r).fp
        sc == storeAndChtimes(fs, tmpMetaStorage, fp, topOf(r).meta, "none")
    IN /\ inTouch(r, "stat2")
       /\ st \in StatResults(fs, fp)
       /\ IF st # "ok"
              THEN /\ setTop(r, [topOf(r) EXCEPT !.at = "returned", !.err = st])
                   /\ UNCHANGED <<fs, tmpMetaStorage>>
              ELSE /\ fs' = sc.fs
                   /\ tmpMetaStorage' = sc.ms
                   /\ setTop(r, [topOf(r) EXCEPT !.at = "returned", !.err = sc.err])
       /\ UNCHANGED <<result, views, pc, reqHeader, newFs, vfOf, calls, webdavLog,
                      lock, reqCtx>>

InitTouch ==
    /\ fs \in TouchTrees
    /\ tmpMetaStorage = EmptyFiles
    /\ result = NoResult
    /\ views = <<>>
    /\ AuthIdle

TouchNext(r) ==
    \/ \E fp \in TouchPaths, meta \in TouchMetas : TouchCall(r, fp, meta)
    \/ \E st \in {"ok", "ENOENT", "EIO"} : TouchStat(r, st)
    \/ \E fails \in BOOLEAN : TouchCreate(r, fails)
    \/ \E st \in {"ok", "ENOENT", "EIO"} : TouchStore(r, st)

NextTouch == \E r \in Requests : TouchNext(r)

\* every goroutine serving a request is scheduled again and again
SpecTouch == InitTouch /\ [][NextTouch]_vars /\ \A r \in Requests : WF_vars(TouchNext(r))

(***************************************************************************)
(* SpecProxy: the server in proxy mode (an auth proxy is configured).  The *)
(* middleware asks the auth proxy for the VFS of the request's access key  *)
(* and attaches it to the request context; the handler then asks getVFS    *)
(* for the VFS of the request.  A context value is the index in views of   *)
(* a VFS, 0 for no value.                                                  *)
(***************************************************************************)
accessKeyOf(r) == parseAuthToken(reqHeader[r])

\* newServer: w._vfs is set only when no auth proxy is configured
serverVfs == 0

\* w.proxy.Call(accessKeyId, "", false): the auth proxy program fails, or
\* names a backend for the user, whose VFS is built once and kept
proxyCall(vs, accessKeyId, fails) ==
    LET made == vfsNew(vs, NewFs(ConfigName(accessKeyId), accessKeyId))
    IN IF fails THEN [VFS |-> 0, err |-> "proxy", views |-> vs]
       ELSE [VFS |-> made.vf, err |-> "ok", views |-> made.views]

\* Server.auth
auth(vs, accessKeyId, fails) ==
    LET called == proxyCall(vs, accessKeyId, fails)
    IN IF called.err # "ok" THEN [value |-> 0, err |-> called.err, views |-> called.views]
       ELSE [value |-> called.VFS, err |-> "ok", views |-> called.views]

\* httplib.CtxGetAuth(ctx): the value the HTTP library's own auth middleware
\* stored under the library's context key
CtxGetAuth(ctx) == ctx.ctxKeyAuth

\* the context the middleware passes on
middlewareAuthCustom(ctx, value) ==
    IF value # 0 THEN [ctx EXCEPT !.ctxKeyId = value] ELSE ctx

getVFS(w_vfs, ctx) ==
    LET value == CtxGetAuth(ctx)
    IN IF w_vfs # 0 THEN [VFS |-> w_vfs, err |-> "ok"]
       ELSE IF value = 0 THEN [VFS |-> 0, err |-> "no VFS found in context"]
       ELSE [VFS |-> value, err |-> "ok"]

InitProxy ==
    /\ fs = EmptyFs
    /\ tmpMetaStorage = EmptyFiles
    /\ result = NoResult
    /\ views = <<>>
    /\ ConcIdle
    /\ pc = [r \in Requests |-> "received"]
    /\ reqHeader \in [Requests -> SigV4Headers]
    /\ newFs = [r \in Requests |-> NoFs]
    /\ vfOf = [r \in Requests |-> 0]
    /\ calls = [r \in Requests |-> 0]
    /\ webdavLog = {}

\* the middleware runs for the request and calls the next handler
StepMiddleware(r, fails) ==
    LET a == auth(views, accessKeyOf(r), fails)
    IN /\ pc[r] = "received"
       /\ views' = a.views
       /\ reqCtx' = [reqCtx EXCEPT ![r] = middlewareAuthCustom(reqCtx[r], a.value)]
       /\ pc' = [pc EXCEPT ![r] = "handler"]
       /\ UNCHANGED <<fsVars, reqHeader, newFs, vfOf, calls, webdavLog, lock, stack>>

\* the handler asks for the VFS of its request
StepGetVFS(r) ==
    LET got == getVFS(serverVfs, reqCtx[r])
    IN /\ pc[r] = "handler"
       /\ vfOf' = [vfOf EXCEPT ![r] = got.VFS]
       /\ pc' = [pc EXCEPT ![r] = IF got.err = "ok" THEN "served" ELSE "failed"]
       /\ UNCHANGED <<fsVars, views, reqHeader, newFs, calls, webdavLog, concVars>>

NextProxy ==
    \E r \in Requests :
        \/ \E fails \in BOOLEAN : StepMiddleware(r, fails)
        \/ StepGetVFS(r)

SpecProxy == InitProxy /\ [][NextProxy]_vars

(***************************************************************************)
(* SpecLock: concurrent requests inside the backend.  A request runs one   *)
(* backend operation; stack[r] holds the frames of the backend functions   *)
(* it is in, the innermost first.  A frame is at "stat" (the vf.Stat of    *)
(* the bucket that comes first), at "lock" (db.lock.Lock()), at "work",    *)
(* at "copy" (io.Copy of the body), at "got" (CopyObject after GetObject)  *)
(* or at "ret" (about to return, running the deferred Unlock); the frame   *)
(* of the operation itself stays as "returned".  Between two steps of a    *)
(* request any other request may take steps.  fs maps an access key to     *)
(* the tree its bearer token reaches.  Two requests are followed inside    *)
(* the backend: one to hold the lock or remove the bucket, one to meet it. *)
(***************************************************************************)
Concurrent == {1, 2}

\* the functions that begin with db.lock.Lock(); defer db.lock.Unlock()
LockingFns ==
    {"ListBucket", "HeadObject", "GetObject", "PutObject", "DeleteMulti", "DeleteObject"}

\* TouchObject takes the lock as well
locksWithTouch(fn) == fn \in LockingFns \cup {"TouchObject"}

locks(fn) == fn \in LockingFns

\* the functions whose first statement after binding the VFS is vf.Stat(bucket)
StatsBucketFirst == {"ListBucket", "HeadObject", "GetObject", "PutObject", "DeleteBucket"}

NoOut == [body |-> <<>>, meta |-> EmptyMeta]

backendCall(fn, key, input, stalled) ==
    [fn |-> fn, bucket |-> "b1", key |-> key, dst |-> <<>>, objects |-> <<>>,
     input |-> input, meta |-> EmptyMeta, stalled |-> stalled]

\* the operations a request may be; a stalled PutObject is one whose client
\* stops sending the body
LockCalls ==
    {backendCall("PutObject", <<"x">>, Body(0), FALSE)}
        \cup {backendCall("PutObject", <<"x">>, Body(1), st) : st \in BOOLEAN}
        \cup {backendCall(fn, <<"x">>, <<>>, FALSE) :
                 fn \in {"HeadObject", "GetObject", "ListBucket", "DeleteObject",
                         "DeleteBucket"}}
        \cup {[backendCall("DeleteMulti", <<>>, <<>>, FALSE)
                  EXCEPT !.objects = <<<<"x">>, <<"y">>>>]}
        \cup {[backendCall("CopyObject", <<"x">>, <<>>, FALSE) EXCEPT !.dst = <<"y">>]}

\* the frame of a function that was just called
frameOf(call) ==
    [fn |-> call.fn,
     at |-> IF call.fn \in StatsBucketFirst THEN "stat"
            ELSE IF locks(call.fn) THEN "lock" ELSE "work",
     bucket |-> call.bucket, key |-> call.key, dst |-> call.dst,
     objects |-> call.objects, input |-> call.input, meta |-> call.meta,
     stalled |-> call.stalled, locked |-> FALSE, err |-> "ok", out |-> NoOut,
     ret |-> [err |-> "ok", out |-> NoOut], cStat |-> "now"]

inFn(r, fns, at) == stack[r] # <<>> /\ topOf(r).fn \in fns /\ topOf(r).at = at
treeOf(r) == fs[accessKeyOf(r)]
setTree(r, tree) == fs' = [fs EXCEPT ![accessKeyOf(r)] = tree]
push(r, caller, callee) ==
    stack' = [stack EXCEPT ![r] = <<callee, caller>> \o Tail(stack[r])]
returns(r, err) == setTop(r, [topOf(r) EXCEPT !.at = "ret", !.err = err])
topPath(r) == pathJoin(topOf(r).bucket, topOf(r).key)

\* what no step inside the backend changes
lockFrame == <<result, pc, reqHeader, newFs, vfOf, calls, webdavLog, reqCtx>>

\* the protocol engine calls the backend operation of the request
LockBegin(r, call) ==
    /\ r \in Concurrent
    /\ stack[r] = <<>>
    /\ stack' = [stack EXCEPT ![r] = <<frameOf(call)>>]
    /\ views' = setAuthForWebDAV(views, accessKeyOf(r))
    /\ UNCHANGED <<fs, tmpMetaStorage, lock, lockFrame>>

\* _, err := vf.Stat(bucket); if err != nil { return BucketNotFound }
LockStat(r) ==
    /\ stack[r] # <<>>
    /\ topOf(r).at = "stat"
    /\ IF vfsStat(treeOf(r), <<topOf(r).bucket>>) = "ENOENT"
           THEN returns(r, "NoSuchBucket")
       ELSE setTop(r, [topOf(r) EXCEPT
                          !.at = IF locks(topOf(r).fn) THEN "lock" ELSE "work"])
    /\ UNCHANGED <<fs, tmpMetaStorage, views, lock, lockFrame>>

\* db.lock.Lock(); defer db.lock.Unlock()
LockAcquire(r) ==
    /\ stack[r] # <<>>
    /\ topOf(r).at = "lock"
    /\ lock = 0
    /\ lock' = r
    /\ setTop(r, [topOf(r) EXCEPT !.at = "work", !.locked = TRUE])
    /\ UNCHANGED <<fs, tmpMetaStorage, views, lockFrame>>

\* PutObject after the lock: mkdirRecursive(objectDir), then TouchObject for
\* a body of size 0, else vf.Create(fp)
PutOpen(r) ==
    LET t == topOf(r)
        fp == topPath(r)
        objectDir == pathDir(fp)
        mk == IF objectDir # <<>> THEN mkdirRecursive(treeOf(r), objectDir)
              ELSE [err |-> "ok", fs |-> treeOf(r)]
        cr == vfsCreate(mk.fs, fp)
    IN /\ inFn(r, {"PutObject"}, "work")
       /\ IF mk.err # "ok" THEN setTree(r, mk.fs) /\ returns(r, mk.err)
          ELSE IF Len(t.input) = 0
              THEN /\ setTree(r, mk.fs)
                   /\ push(r, [t EXCEPT !.at = "ret"],
                           frameOf([t EXCEPT !.fn = "TouchObject"]))
          ELSE IF cr.err # "ok" THEN setTree(r, mk.fs) /\ returns(r, cr.err)
          ELSE setTree(r, cr.fs) /\ setTop(r, [t EXCEPT !.at = "copy"])
       /\ UNCHANGED <<tmpMetaStorage, views, lock, lockFrame>>

\* io.Copy(w, input), which waits for the body, then f.Close(), vf.Stat(fp),
\* tmpMetaStorage.Store(fp, meta) and vf.Chtimes
PutCopy(r) ==
    LET t == topOf(r)
        written == vfsWrite(treeOf(r), topPath(r), t.input)
        sc == storeAndChtimes(written, tmpMetaStorage, topPath(r), t.meta, "none")
    IN /\ inFn(r, {"PutObject"}, "copy")
       /\ ~t.stalled
       /\ setTree(r, sc.fs)
       /\ tmpMetaStorage' = sc.ms
       /\ returns(r, sc.err)
       /\ UNCHANGED <<views, lock, lockFrame>>

\* TouchObject: create the file and call TouchObject again, or store
TouchWork(r) ==
    LET t == topOf(r)
        cr == vfsCreate(treeOf(r), topPath(r))
        sc == storeAndChtimes(treeOf(r), tmpMetaStorage, topPath(r), t.meta, "none")
    IN /\ inFn(r, {"TouchObject"}, "work")
       /\ IF vfsStat(treeOf(r), topPath(r)) # "ENOENT"
              THEN /\ setTree(r, sc.fs)
                   /\ tmpMetaStorage' = sc.ms
                   /\ returns(r, sc.err)
          ELSE IF cr.err # "ok"
              THEN returns(r, cr.err) /\ UNCHANGED <<fs, tmpMetaStorage>>
          ELSE /\ setTree(r, cr.fs)
               /\ push(r, [t EXCEPT !.at = "ret"], frameOf(t))
               /\ UNCHANGED tmpMetaStorage
       /\ UNCHANGED <<views, lock, lockFrame>>

\* HeadObject, GetObject and ListBucket after the lock
ReadWork(r) ==
    LET t == topOf(r)
        tree == treeOf(r)
        fp == topPath(r)
    IN /\ inFn(r, {"HeadObject", "GetObject", "ListBucket"}, "work")
       /\ IF t.fn = "ListBucket"
              THEN returns(r, listBucket(tree, t.bucket, <<>>, <<>>).err)
          ELSE IF vfsStat(tree, fp) # "file" THEN returns(r, "NoSuchKey")
          ELSE setTop(r, [t EXCEPT !.at = "ret",
                             !.out = [body |-> tree.files[fp].body,
                                      meta |-> objectMeta(tree, tmpMetaStorage, fp)]])
       /\ UNCHANGED <<fs, tmpMetaStorage, views, lock, lockFrame>>

\* DeleteObject and DeleteMulti after the lock: deleteObjectLocked for the
\* key, or for the next of the objects
DeleteCall(r) ==
    LET t == topOf(r)
        callee(key) == frameOf([t EXCEPT !.fn = "deleteObjectLocked", !.key = key,
                                         !.objects = <<>>])
    IN /\ inFn(r, {"DeleteObject", "DeleteMulti"}, "work")
       /\ IF t.fn = "DeleteObject" THEN push(r, [t EXCEPT !.at = "ret"], callee(t.key))
          ELSE IF t.objects = <<>> THEN returns(r, "ok")
          ELSE push(r, [t EXCEPT !.objects = Tail(t.objects)], callee(Head(t.objects)))
       /\ UNCHANGED <<fs, tmpMetaStorage, views, lock, lockFrame>>

DeleteLockedWork(r) ==
    LET d == deleteObjectLocked(treeOf(r), topOf(r).bucket, topOf(r).key)
    IN /\ inFn(r, {"deleteObjectLocked"}, "work")
       /\ setTree(r, d.fs)
       /\ returns(r, d.err)
       /\ UNCHANGED <<tmpMetaStorage, views, lock, lockFrame>>

\* DeleteBucket after its Stat: vf.Remove(name)
DeleteBucketWork(r) ==
    LET rm == vfsRemove(treeOf(r), <<topOf(r).bucket>>)
    IN /\ inFn(r, {"DeleteBucket"}, "work")
       /\ setTree(r, rm.fs)
       /\ returns(r, IF rm.err # "ok" THEN "BucketNotEmpty" ELSE "ok")
       /\ UNCHANGED <<tmpMetaStorage, views, lock, lockFrame>>

\* CopyObject to another path: cStat, err := vf.Stat(fp), then db.GetObject
CopyGet(r) ==
    LET t == topOf(r)
        fp == topPath(r)
        tree == treeOf(r)
    IN /\ inFn(r, {"CopyObject"}, "work")
       /\ IF vfsStat(tree, fp) = "ENOENT" THEN returns(r, "ENOENT")
          ELSE push(r, [t EXCEPT !.at = "got",
                           !.cStat = IF fp \in DOMAIN tree.files
                                         THEN tree.files[fp].mtime ELSE "now"],
                    frameOf([t EXCEPT !.fn = "GetObject", !.dst = <<>>]))
       /\ UNCHANGED <<fs, tmpMetaStorage, views, lock, lockFrame>>

\* CopyObject after GetObject returned: merge the metadata, then db.PutObject
CopyPut(r) ==
    LET t == topOf(r)
        c == t.ret
        merged == [h \in DOMAIN t.meta \cup (DOMAIN c.out.meta \ {"X-Amz-Acl"}) |->
                      IF h \in DOMAIN t.meta THEN t.meta[h] ELSE c.out.meta[h]]
        withMtime == IF "mtime" \in DOMAIN merged THEN merged
                     ELSE Merge(merged, [h \in {"mtime"} |-> TimeToFloatString(t.cStat)])
    IN /\ inFn(r, {"CopyObject"}, "got")
       /\ IF c.err # "ok" THEN returns(r, c.err)
          ELSE push(r, [t EXCEPT !.at = "ret"],
                    frameOf([t EXCEPT !.fn = "PutObject", !.key = t.dst, !.dst = <<>>,
                                      !.meta = withMtime, !.input = c.out.body]))
       /\ UNCHANGED <<fs, tmpMetaStorage, views, lock, lockFrame>>

\* the function returns: the deferred Unlock runs when the function took the
\* lock, and the caller goes on with what was returned
LockReturn(r) ==
    LET t == topOf(r)
        caller == stack[r][2]
    IN /\ stack[r] # <<>>
       /\ t.at = "ret"
       /\ lock' = IF t.locked THEN 0 ELSE lock
       /\ stack' = [stack EXCEPT ![r] =
             IF Len(stack[r]) = 1 THEN <<[t EXCEPT !.at = "returned", !.locked = FALSE]>>
             ELSE <<[caller EXCEPT !.ret = [err |-> t.err, out |-> t.out],
                                   !.err = IF caller.fn = "DeleteMulti" THEN caller.err
                                           ELSE t.err]>>
                      \o SubSeq(stack[r], 3, Len(stack[r]))]
       /\ UNCHANGED <<fs, tmpMetaStorage, views, lockFrame>>

InitLock ==
    /\ fs \in [AccessKeys -> TouchTrees]
    /\ tmpMetaStorage = EmptyFiles
    /\ result = NoResult
    /\ views = <<>>
    /\ lock = 0
    /\ stack = [r \in Requests |-> <<>>]
    /\ reqCtx = [r \in Requests |-> NoCtx]
    /\ pc = [r \in Requests |-> "done"]
    /\ reqHeader \in [Requests -> {h \in SigV4Headers : h.signature = "secret1"}]
    /\ \A r \in Requests \ Concurrent : reqHeader[r].credential = FsAccessKey
    /\ newFs = [r \in Requests |-> NoFs]
    /\ vfOf = [r \in Requests |-> 0]
    /\ calls = [r \in Requests |-> 0]
    /\ webdavLog = {}

LockNext(r) ==
    \/ \E call \in LockCalls : LockBegin(r, call)
    \/ LockStat(r)
    \/ LockAcquire(r)
    \/ PutOpen(r)
    \/ PutCopy(r)
    \/ TouchWork(r)
    \/ ReadWork(r)
    \/ DeleteCall(r)
    \/ DeleteLockedWork(r)
    \/ DeleteBucketWork(r)
    \/ CopyGet(r)
    \/ CopyPut(r)
    \/ LockReturn(r)

NextLock == \E r \in Requests : LockNext(r)

\* the goroutine of every request is scheduled again and again; a step that
\* waits (for the lock, for the body) is not taken while it waits
SpecLock == InitLock /\ [][NextLock]_vars /\ \A r \in Requests : WF_vars(LockNext(r))

(***************************************************************************)
(* SpecAuth: concurrent S3 requests of several tenants.  A request binds   *)
(* its VFS in the three steps of setAuthForWebDAV (info.NewFs, vfs.New,    *)
(* SetBearerToken), between which other requests run, then issues WebDAV   *)
(* calls through the VFS, each carrying the token the VFS holds then.      *)
(***************************************************************************)
InitAuth ==
    /\ fs = EmptyFs
    /\ tmpMetaStorage = EmptyFiles
    /\ result = NoResult
    /\ views = <<>>
    /\ ConcIdle
    /\ pc = [r \in Requests |-> "received"]
    /\ reqHeader \in [Requests -> SigV4Headers]
    /\ newFs = [r \in Requests |-> NoFs]
    /\ vfOf = [r \in Requests |-> 0]
    /\ calls = [r \in Requests |-> 0]
    /\ webdavLog = {}

\* the protocol engine authenticates the request before it calls the backend
StepV4Auth(r) ==
    /\ pc[r] = "received"
    /\ pc' = [pc EXCEPT ![r] = IF V4Auth(authPair, reqHeader[r]) = "ok"
                                   THEN "start" ELSE "rejected"]
    /\ UNCHANGED <<fsVars, concVars, views, reqHeader, newFs, vfOf, calls, webdavLog>>

StepNewFsShared(r) ==
    /\ pc[r] = "start"
    /\ newFs' = [newFs EXCEPT ![r] = NewFs(ConfigNameShared(accessKeyOf(r)), accessKeyOf(r))]
    /\ pc' = [pc EXCEPT ![r] = "vfsnew"]
    /\ UNCHANGED <<fsVars, concVars, views, reqHeader, vfOf, calls, webdavLog>>

StepNewFsPerRequest(r) ==
    /\ pc[r] = "start"
    /\ newFs' = [newFs EXCEPT ![r] = NewFs(<<RemoteName, accessKeyOf(r), r>>, accessKeyOf(r))]
    /\ pc' = [pc EXCEPT ![r] = "vfsnew"]
    /\ UNCHANGED <<fsVars, concVars, views, reqHeader, vfOf, calls, webdavLog>>

\* f, _ := info.NewFs(ctx, name+accessKey, remote, config)
StepNewFs(r) ==
    /\ pc[r] = "start"
    /\ newFs' = [newFs EXCEPT ![r] = NewFs(ConfigName(accessKeyOf(r)), accessKeyOf(r))]
    /\ pc' = [pc EXCEPT ![r] = "vfsnew"]
    /\ UNCHANGED <<fsVars, concVars, views, reqHeader, vfOf, calls, webdavLog>>

\* vf := vfs.New(f, &vfsflags.Opt)
StepVfsNew(r) ==
    /\ pc[r] = "vfsnew"
    /\ views' = vfsNew(views, newFs[r]).views
    /\ vfOf' = [vfOf EXCEPT ![r] = vfsNew(views, newFs[r]).vf]
    /\ pc' = [pc EXCEPT ![r] = "settoken"]
    /\ UNCHANGED <<fsVars, concVars, reqHeader, newFs, calls, webdavLog>>

\* vf.Fs().(*webdav.Fs).SetBearerToken(accessKey); return vf
StepSetBearerToken(r) ==
    /\ pc[r] = "settoken"
    /\ views' = SetBearerToken(views, vfOf[r], accessKeyOf(r))
    /\ pc' = [pc EXCEPT ![r] = "bound"]
    /\ UNCHANGED <<fsVars, concVars, reqHeader, newFs, vfOf, calls, webdavLog>>

\* one WebDAV call (PROPFIND, PUT, ...) issued through the request's VFS
StepWebDAV(r) ==
    /\ pc[r] = "bound"
    /\ calls[r] < MaxCalls
    /\ calls' = [calls EXCEPT ![r] = calls[r] + 1]
    /\ webdavLog' = webdavLog \cup {[req |-> r, auth |-> Bearer(views[vfOf[r]].token)]}
    /\ UNCHANGED <<fsVars, concVars, views, pc, reqHeader, newFs, vfOf>>

\* the operation returns
StepReturn(r) ==
    /\ pc[r] = "bound"
    /\ pc' = [pc EXCEPT ![r] = "done"]
    /\ UNCHANGED <<fsVars, concVars, views, reqHeader, newFs, vfOf, calls, webdavLog>>

NextAuth ==
    \E r \in Requests :
        \/ StepV4Auth(r)
        \/ StepNewFs(r)
        \/ StepVfsNew(r)
        \/ StepSetBearerToken(r)
        \/ StepWebDAV(r)
        \/ StepReturn(r)

SpecAuth == InitAuth /\ [][NextAuth]_vars


(***************************************************************************)
(* Properties of the identity binding (checked under SpecAuth).            *)
(***************************************************************************)
\* the VFS has been returned by setAuthForWebDAV to some request
Handed(i) == \E q \in Requests : vfOf[q] = i /\ pc[q] \in {"bound", "done"}

\* C1: every WebDAV call issued on behalf of a request bearing access key k
\* carries exactly the header "Authorization: Bearer k", whatever the other
\* requests in flight do
C1_BearerIsOwnKey ==
    \A e \in webdavLog : e.auth = Bearer(reqHeader[e.req].credential)

\* two requests with different access keys are in flight and both have
\* issued WebDAV calls
C1_Witness ==
    \E e1, e2 \in webdavLog :
        /\ reqHeader[e1.req].credential # reqHeader[e2.req].credential
        /\ pc[e1.req] = "bound"
        /\ pc[e2.req] = "bound"

\* C2: the VFS a request holds was built for that request's access key, and
\* no VFS is held by two requests bearing different access keys
C2_ViewNotShared ==
    /\ \A r \in Requests :
          vfOf[r] # 0 => views[vfOf[r]].madeFor = reqHeader[r].credential
    /\ \A r1, r2 \in Requests :
          (vfOf[r1] # 0 /\ vfOf[r1] = vfOf[r2])
              => reqHeader[r1].credential = reqHeader[r2].credential

\* requests bearing different access keys hold VFSes at the same time
C2_Witness ==
    \E r1, r2 \in Requests :
        /\ reqHeader[r1].credential # reqHeader[r2].credential
        /\ vfOf[r1] # 0
        /\ vfOf[r2] # 0
        /\ pc[r1] = "bound"
        /\ pc[r2] \in {"settoken", "bound"}

\* C3: at most one VFS is ever constructed for an access key, and all
\* requests bearing the same key are served by that one VFS
C3_OneViewPerKey ==
    /\ \A k \in AccessKeys :
          Cardinality({i \in 1..Len(views) : views[i].madeFor = k}) <= 1
    /\ \A r1, r2 \in Requests :
          (vfOf[r1] # 0 /\ vfOf[r2] # 0
              /\ reqHeader[r1].credential = reqHeader[r2].credential)
              => vfOf[r1] = vfOf[r2]

\* a later request bearing the key of a finished request has been served
C3_Witness ==
    \E r1, r2 \in Requests :
        /\ r1 # r2
        /\ reqHeader[r1].credential = reqHeader[r2].credential
        /\ pc[r1] = "done"
        /\ pc[r2] = "done"
        /\ vfOf[r1] = vfOf[r2]

C5_SecretNotForwarded ==
    /\ \A e \in webdavLog : \A s \in Secrets : e.auth # Bearer(s)
    /\ \A e1, e2 \in webdavLog :
          reqHeader[e1.req].credential = reqHeader[e2.req].credential
              => e1.auth = e2.auth

\* two requests with the same access key and different secrets have both
\* issued WebDAV calls
C5_Witness ==
    \E e1, e2 \in webdavLog :
        /\ reqHeader[e1.req].credential = reqHeader[e2.req].credential
        /\ reqHeader[e1.req].signature # reqHeader[e2.req].signature


(***************************************************************************)
(* Properties of the backend operations (checked under Spec, the range     *)
(* reads under SpecRange).                                                 *)
(***************************************************************************)
resultPath == pathJoin(result.bucket, result.key)

\* C6 as stated: after a successful PutObject of a body B of any length, on a
\* key that held an object or not, GetObject of the key returns exactly B and
\* a size equal to the length of B
C6_PutGetRoundTrip ==
    (result.op = "PutObject" /\ result.err = "ok")
        => LET g == getObject(fs, tmpMetaStorage, result.bucket, result.key, NoRange)
           IN /\ g.err = "ok"
              /\ g.body = result.input
              /\ g.size = Len(result.input)

\* C7 as stated: in an existing bucket, DeleteObject on a key that holds no
\* object (nothing exists at its path) succeeds and leaves the filesystem
\* unchanged
C7_DeleteMissingUnchanged ==
    (/\ result.op = "DeleteObject"
     /\ vfsStat(result.pre, <<result.bucket>>) = "dir"
     /\ vfsStat(result.pre, resultPath) = "ENOENT")
        => (result.err = "ok" /\ fs = result.pre)

\* C7 as amended: in an existing bucket, DeleteObject on a key at whose path
\* nothing exists succeeds; it changes no file and removes nothing but
\* directories above the key and below the bucket that were empty or held
\* only such directories; repeating it succeeds and changes nothing
C7_DeleteMissingIdempotent ==
    (/\ result.op = "DeleteObject"
     /\ vfsStat(result.pre, <<result.bucket>>) = "dir"
     /\ vfsStat(result.pre, resultPath) = "ENOENT")
        => /\ result.err = "ok"
           /\ fs.files = result.pre.files
           /\ fs.dirs \subseteq result.pre.dirs
           /\ \A d \in result.pre.dirs \ fs.dirs :
                 /\ Len(d) > 1
                 /\ Len(d) < Len(resultPath)
                 /\ d = SubSeq(resultPath, 1, Len(d))
                 /\ Children(result.pre, d) \subseteq result.pre.dirs \ fs.dirs
           /\ deleteObjectLocked(fs, result.bucket, result.key) = [err |-> "ok", fs |-> fs]

\* DeleteObject on a missing key has succeeded and removed an empty directory
C7_Witness ==
    /\ result.op = "DeleteObject"
    /\ vfsStat(result.pre, <<result.bucket>>) = "dir"
    /\ vfsStat(result.pre, resultPath) = "ENOENT"
    /\ result.err = "ok"
    /\ fs # result.pre

\* C8: a range read of an object of size n with 0 <= start < n returns exactly
\* the bytes [start, start + min(length, n - start)); with start < 0 or
\* start >= n it fails with InvalidRange (the file opens and the seek does
\* not fail)
C8_RangeGet ==
    (/\ result.op = "GetObject"
     /\ result.fault = "none"
     /\ result.rnge.has
     /\ vfsStat(fs, resultPath) = "file")
        => LET content == fs.files[resultPath].body
               n == Len(content)
               start == result.rnge.start
               len == IF result.rnge.length < n - start
                         THEN result.rnge.length ELSE n - start
           IN IF 0 <= start /\ start < n
                  THEN /\ result.err = "ok"
                       /\ result.body = [i \in 1..len |-> content[start + i]]
              ELSE result.err = "InvalidRange"

\* a range read starting inside the object and reaching past its end
C8_Witness ==
    /\ result.op = "GetObject"
    /\ result.rnge.has
    /\ result.err = "ok"
    /\ result.rnge.start > 0
    /\ result.rnge.start + result.rnge.length > result.size
    /\ Len(result.body) > 0

\* C9: CreateBucket on a name whose stat succeeds fails with
\* BucketAlreadyExists and leaves the tree unchanged; on a name that does not
\* exist it creates the directory (BucketExists is then true)
C9_CreateBucket ==
    result.op = "CreateBucket"
        => /\ (result.fault # "stat" /\ vfsStat(result.pre, <<result.bucket>>) # "ENOENT")
                 => (result.err = "BucketAlreadyExists" /\ fs = result.pre)
           /\ (result.fault = "none" /\ vfsStat(result.pre, <<result.bucket>>) = "ENOENT")
                 => /\ result.err = "ok"
                    /\ bucketExists(fs, result.bucket)
                    /\ fs = [result.pre EXCEPT !.dirs = @ \cup {<<result.bucket>>}]

\* CreateBucket has been refused on a bucket that holds entries
C9_Witness ==
    /\ result.op = "CreateBucket"
    /\ result.err = "BucketAlreadyExists"
    /\ Children(fs, <<result.bucket>>) # {}

\* C10: DeleteBucket on a bucket that still has an entry fails with
\* BucketNotEmpty and removes nothing; on a missing bucket it fails with
\* NoSuchBucket
C10_DeleteBucket ==
    result.op = "DeleteBucket"
        => /\ Children(result.pre, <<result.bucket>>) # {}
                 => (result.err = "BucketNotEmpty" /\ fs = result.pre)
           /\ vfsStat(result.pre, <<result.bucket>>) = "ENOENT"
                 => (result.err = "NoSuchBucket" /\ fs = result.pre)

\* DeleteBucket has been refused on a bucket that holds an object
C10_Witness ==
    /\ result.op = "DeleteBucket"
    /\ result.err = "BucketNotEmpty"
    /\ \E p \in DOMAIN fs.files : p[1] = result.bucket

(***************************************************************************)
(* Properties of the listings (checked under SpecList).                    *)
(***************************************************************************)
\* the directory the prefix of the last ListBucket resolves to, the name
\* component of that prefix, and the key of a file below the bucket
listDir == Resolve(result.bucket, prefixParser(result.prefix).path)
listName == prefixParser(result.prefix).remaining
KeyOf(p) == SpellPath(SubSeq(p, 2, Len(p)))

\* the files of the subtree of listDir whose top-level entry name starts
\* with the name component
listSubtree ==
    {p \in DOMAIN fs.files :
        /\ Len(p) > Len(listDir)
        /\ SubSeq(p, 1, Len(listDir)) = listDir
        /\ HasPrefix(Spell(p[Len(listDir) + 1]), listName)}

C12_DelimiterOneLevel ==
    (result.op = "ListBucket" /\ result.delimiter = <<"/">> /\ result.err = "ok")
        => \A k \in BagToSet(result.contents) :
              /\ \E q \in Children(fs, listDir) \cap DOMAIN fs.files :
                    URLDecode(k) = KeyOf(q)
              /\ CountSlash(k) <= CountSlash(result.prefix)
              /\ HasPrefix(URLDecode(k), result.prefix)
                    => CountSlash(URLDecode(k)) = CountSlash(result.prefix)

\* a listing with delimiter "/" of a directory that holds a file and a
\* directory with a file below it
C12_Witness ==
    /\ result.op = "ListBucket"
    /\ result.delimiter = <<"/">>
    /\ result.err = "ok"
    /\ result.contents # EmptyBag
    /\ result.prefixes # EmptyBag
    /\ \E p \in DOMAIN fs.files :
          Len(p) > Len(listDir) + 1 /\ SubSeq(p, 1, Len(listDir)) = listDir

\* C13: a ListBucket with an empty delimiter is fully recursive: it returns no
\* common prefix and exactly one content item for every file of the subtree
\* of the resolved prefix directory whose top-level entry name starts with
\* the name component, and nothing else
C13_RecursiveListing ==
    (result.op = "ListBucket" /\ result.delimiter = <<>> /\ result.err = "ok")
        => /\ result.prefixes = EmptyBag
           /\ BagToSet(result.contents) = {URLEncode(KeyOf(p)) : p \in listSubtree}
           /\ \A k \in BagToSet(result.contents) : CopiesIn(k, result.contents) = 1

\* a recursive listing under a name component that has returned files of
\* two depths and left a file of the directory out
C13_Witness ==
    /\ result.op = "ListBucket"
    /\ result.delimiter = <<>>
    /\ result.err = "ok"
    /\ listName # <<>>
    /\ \E p1, p2 \in listSubtree : Len(p1) < Len(p2)
    /\ \E p \in DOMAIN fs.files :
          /\ SubSeq(p, 1, Len(listDir)) = listDir
          /\ Len(p) > Len(listDir)
          /\ p \notin listSubtree

\* C14 as stated: ListBucket on an existing bucket with a prefix whose path
\* component resolves to a directory that does not exist returns an empty
\* object list and no error
C14_MissingPrefixEmpty ==
    (/\ result.op = "ListBucket"
     /\ vfsStat(fs, <<result.bucket>>) = "dir"
     /\ vfsStat(fs, listDir) = "ENOENT")
        => /\ result.err = "ok"
           /\ result.contents = EmptyBag
           /\ result.prefixes = EmptyBag

\* C15: the keys of a recursive ListBucket URL-decode to the paths, relative
\* to the bucket, of the objects of the bucket, one key for each object, and
\* the names ListBuckets returns URL-decode to the names of the directories
\* of the root
C15_KeyEncodingRoundTrip ==
    /\ (result.op = "ListBucket" /\ result.delimiter = <<>>
            /\ result.prefix = <<>> /\ result.err = "ok")
          => /\ \A p \in DOMAIN fs.files :
                   (Len(p) > 1 /\ p[1] = result.bucket)
                       => Cardinality({k \in BagToSet(result.contents) :
                                          URLDecode(k) = KeyOf(p)}) = 1
             /\ \A k \in BagToSet(result.contents) :
                   \E p \in DOMAIN fs.files :
                       Len(p) > 1 /\ p[1] = result.bucket /\ URLDecode(k) = KeyOf(p)
    /\ (result.op = "ListBuckets" /\ result.err = "ok")
          => /\ \A q \in Children(fs, <<>>) \cap fs.dirs :
                   Cardinality({k \in BagToSet(result.buckets) :
                                   URLDecode(k) = Spell(q[1])}) = 1
             /\ \A k \in BagToSet(result.buckets) :
                   \E q \in Children(fs, <<>>) \cap fs.dirs : URLDecode(k) = Spell(q[1])

\* a recursive listing has returned the key of an object whose directory and
\* file names both need escaping
C15_Witness ==
    /\ result.op = "ListBucket"
    /\ result.delimiter = <<>>
    /\ result.prefix = <<>>
    /\ URLEncode(KeyOf(<<"b1", "w", "q">>)) \in BagToSet(result.contents)
    /\ URLEncode(KeyOf(<<"b1", "w", "q">>)) # KeyOf(<<"b1", "w", "q">>)

C17_BadDigestRefused ==
    (/\ result.op = "PutObject"
     /\ result.fault = "digest"
     /\ vfsStat(result.pre, <<result.bucket>>) = "dir")
        => /\ result.err = "BadDigest"
           /\ LET g == getObject(fs, tmpMetaStorage, result.bucket, result.key, NoRange)
              IN ~(g.err = "ok" /\ g.body = result.input)

\* C18 as stated: a PutObject (or touch) that has written the object and
\* stored metadata carrying a parseable time returns success whether or not
\* the chtimes call fails
C18_ChtimesTolerated ==
    (/\ result.op = "PutObject"
     /\ result.fault \in {"none", "chtimes"}
     /\ HasTime(result.meta)
     /\ vfsStat(result.pre, <<result.bucket>>) = "dir"
     /\ vfsStat(fs, resultPath) = "file"
     /\ resultPath \in DOMAIN tmpMetaStorage
     /\ tmpMetaStorage[resultPath] = result.meta)
        => result.err = "ok"

C20_CopySamePathMetaOnly ==
    (/\ result.op = "CopyObject"
     /\ result.srcBucket = result.bucket
     /\ result.srcKey = result.key)
        => LET val == IF "X-Amz-Meta-Mtime" \in DOMAIN result.meta
                          THEN result.meta["X-Amz-Meta-Mtime"]
                      ELSE IF "mtime" \in DOMAIN result.meta
                          THEN result.meta["mtime"] ELSE "none"
           IN /\ fs.dirs = result.pre.dirs
              /\ DOMAIN fs.files = DOMAIN result.pre.files
              /\ \A p \in DOMAIN fs.files :
                    /\ fs.files[p].body = result.pre.files[p].body
                    /\ p # resultPath => fs.files[p] = result.pre.files[p]
              /\ tmpMetaStorage = WithFile(result.preMeta, resultPath, result.meta)
              /\ resultPath \in DOMAIN fs.files
                    => fs.files[resultPath].mtime =
                          IF val \in ParseableTimes /\ result.fault = "none"
                              THEN val ELSE result.pre.files[resultPath].mtime

\* a CopyObject onto the same path of a non-empty object has set its
\* modification time and replaced its stored metadata
C20_Witness ==
    /\ result.op = "CopyObject"
    /\ result.srcKey = result.key
    /\ resultPath \in DOMAIN fs.files
    /\ fs.files[resultPath].body # <<>>
    /\ fs.files[resultPath].mtime # result.pre.files[resultPath].mtime
    /\ resultPath \in DOMAIN result.preMeta
    /\ result.preMeta[resultPath] # result.meta

(***************************************************************************)
(* Properties of CopyObject between two paths (checked under SpecCopy).    *)
(***************************************************************************)
sourcePath == pathJoin(result.srcBucket, result.srcKey)
\* the metadata GetObject returned for the source of the copy
sourceMeta ==
    getObject(result.pre, result.preMeta, result.srcBucket, result.srcKey, NoRange).meta
CopiedAcross ==
    /\ result.op = "CopyObject"
    /\ sourcePath # resultPath
    /\ result.err = "ok"

\* C21 as stated: a CopyObject to a different path with metadata M stores for
\* the destination every entry of M, every source entry whose key is not in M
\* and is not X-Amz-Acl, and mtime set to the source's modification time
\* whenever M has no mtime
C21_MtimeDefaultWhenCallerHasNone ==
    CopiedAcross =>
        LET stored == tmpMetaStorage[resultPath]
        IN /\ \A h \in DOMAIN result.meta : stored[h] = result.meta[h]
           /\ "mtime" \notin DOMAIN result.meta
                 => stored["mtime"] =
                       TimeToFloatString(result.pre.files[sourcePath].mtime)

\* C21: a CopyObject to a different path with metadata M stores for the
\* destination exactly: every entry of M, every source entry whose key is
\* not in M and is not X-Amz-Acl (an mtime entry of the source among them),
\* and, when neither M nor the source metadata has an mtime entry, mtime set
\* to the source's modification time
C21_CopyMergesMetadata ==
    CopiedAcross =>
        LET stored == tmpMetaStorage[resultPath]
            fromSource == DOMAIN sourceMeta \ (DOMAIN result.meta \cup {"X-Amz-Acl"})
        IN /\ DOMAIN stored = DOMAIN result.meta \cup fromSource \cup {"mtime"}
           /\ \A h \in DOMAIN result.meta : stored[h] = result.meta[h]
           /\ \A h \in fromSource : stored[h] = sourceMeta[h]
           /\ "mtime" \notin DOMAIN result.meta \cup DOMAIN sourceMeta
                 => stored["mtime"] =
                       TimeToFloatString(result.pre.files[sourcePath].mtime)

\* a copy given a Content-Type of a source stored with X-Amz-Acl and its own
\* Content-Type, the destination having got the source's modification time
C21_Witness ==
    /\ CopiedAcross
    /\ sourcePath \in DOMAIN result.preMeta
    /\ "X-Amz-Acl" \in DOMAIN result.preMeta[sourcePath]
    /\ "Content-Type" \in DOMAIN result.meta
    /\ sourceMeta["Content-Type"] # result.meta["Content-Type"]
    /\ tmpMetaStorage[resultPath]["mtime"] = result.pre.files[sourcePath].mtime

\* C22 as stated: after a successful CopyObject to a different path, GetObject
\* on the destination returns the body the source had, whatever the size of
\* the source and whatever the destination held, and the source's content is
\* unchanged
C22_CopyBodyIdentical ==
    CopiedAcross =>
        /\ LET g == getObject(fs, tmpMetaStorage, result.bucket, result.key, NoRange)
           IN g.err = "ok" /\ g.body = result.pre.files[sourcePath].body
        /\ fs.files[sourcePath].body = result.pre.files[sourcePath].body

(***************************************************************************)
(* Properties of the deletes and reads on nested trees (checked under      *)
(* SpecTree).                                                              *)
(***************************************************************************)
\* how often a key is in a sequence of keys
Occurrences(seqOfKeys, k) == Cardinality({i \in 1..Len(seqOfKeys) : seqOfKeys[i] = k})
ErrorKeys == [i \in 1..Len(result.Error) |-> result.Error[i].Key]

ancestorsBelowBucket == {a \in Ancestors(resultPath) : Len(a) > 1}

\* C24: after a DeleteObject that deleted the object at the key, every
\* directory above the key and strictly below the bucket that has become
\* empty is removed; the cleanup stops at the first directory that is not
\* empty, so a directory that remains holds an entry and nothing above it is
\* touched; the bucket directory is never removed, and nothing else changes
C24_EmptyAncestorsRemoved ==
    (/\ result.op = "DeleteObject"
     /\ vfsStat(result.pre, <<result.bucket>>) = "dir"
     /\ vfsStat(result.pre, resultPath) = "file")
        => /\ result.err = "ok"
           /\ <<result.bucket>> \in fs.dirs
           /\ fs.files = WithoutFile(result.pre.files, resultPath)
           /\ fs.dirs \subseteq result.pre.dirs
           /\ result.pre.dirs \ fs.dirs \subseteq ancestorsBelowBucket
           /\ \A a \in ancestorsBelowBucket :
                 /\ a \in fs.dirs => Children(fs, a) # {}
                 /\ a \notin fs.dirs
                       => Children(result.pre, a) \subseteq
                             {resultPath} \cup (result.pre.dirs \ fs.dirs)

\* the object b1/d/e/x was deleted, b1/d/e was removed with it, and b1/d,
\* which holds another object, remains
C24_Witness ==
    /\ result.op = "DeleteObject"
    /\ resultPath = <<"b1", "d", "e", "x">>
    /\ resultPath \in DOMAIN result.pre.files
    /\ <<"b1", "d", "e">> \notin fs.dirs
    /\ <<"b1", "d">> \in fs.dirs
    /\ <<"b1", "d", "x">> \in DOMAIN fs.files

\* C25 as stated: when the WebDAV server rejects the calls of an operation
\* with 401/403, the operation fails with AccessDenied, not with the error
\* of a missing bucket or key
C25_RejectedIsAccessDenied ==
    (result.op \in {"HeadObject", "GetObject"} /\ result.fault = "unauthorized")
        => result.err = "AccessDenied"

\* C26 as stated: HeadObject and GetObject fail with NoSuchBucket when the
\* bucket directory does not exist, and with NoSuchKey when the bucket
\* exists and no file is at the key (a directory at the key included); in
\* both cases no stream is left open and nothing is modified
C26_MissingBucketOrKey ==
    (result.op \in {"HeadObject", "GetObject"} /\ result.fault = "none")
        => /\ <<result.bucket>> \notin result.pre.dirs => result.err = "NoSuchBucket"
           /\ (<<result.bucket>> \in result.pre.dirs
                  /\ vfsStat(result.pre, resultPath) # "file")
                 => result.err = "NoSuchKey"
           /\ result.err \in {"NoSuchBucket", "NoSuchKey"}
                 => /\ result.opens = result.closes
                    /\ result.closer = "none"
                    /\ fs = result.pre
                    /\ tmpMetaStorage = result.preMeta

C29_CloseDiscipline ==
    result.op = "GetObject" =>
        /\ result.opens = 0 => result.closes = 0 /\ result.closer = "none"
        /\ (result.opens = 1 /\ result.err # "ok")
              => result.closes = 1 /\ result.closer = "none"
        /\ (result.opens = 1 /\ result.err = "ok")
              => /\ result.closes = 0
                 /\ result.closer = IF Range(result.rnge, result.size).has
                                        THEN "limitReadCloser" ELSE "in"
                 /\ closeContents(result.closer) = 1
        /\ result.err = "ok" => result.opens = 1

\* a GetObject of a valid range whose seek failed after the file was opened
C29_Witness ==
    /\ result.op = "GetObject"
    /\ result.fault = "seek"
    /\ result.err = "EIO"
    /\ result.opens = 1
    /\ result.closes = 1

(***************************************************************************)
(* Common prefixes (checked under SpecList).                               *)
(***************************************************************************)
\* C30 as stated: with delimiter "/", every directory of the resolved
\* directory whose name starts with the name component is reported as the
\* common prefix <path_component>/<entry>/, ending with the delimiter, and
\* is not descended into
C30_CommonPrefixEndsWithDelimiter ==
    (result.op = "ListBucket" /\ result.delimiter = <<"/">> /\ result.err = "ok")
        => /\ BagToSet(result.prefixes) =
                 {URLEncode(KeyOf(q) \o <<"/">>) :
                     q \in {c \in Children(fs, listDir) \cap fs.dirs :
                               HasPrefix(Spell(c[Len(c)]), listName)}}
           /\ \A k \in BagToSet(result.contents) :
                 \E q \in Children(fs, listDir) \cap DOMAIN fs.files :
                    URLDecode(k) = KeyOf(q)

(***************************************************************************)
(* Forwarding mode (checked under SpecAuth).                               *)
(***************************************************************************)
\* C28: with no pair configured, a request is accepted whatever its access
\* key and whatever the secret it was signed with, and it is processed with
\* the access key of its Credential field: the filesystem built for it and
\* the token of the VFS it is handed are that key
C28_ForwardingAcceptsAnyKey ==
    \A r \in Requests :
        /\ pc[r] # "rejected"
        /\ newFs[r] # NoFs
              => /\ newFs[r].madeFor = reqHeader[r].credential
                 /\ newFs[r].name = ConfigName(reqHeader[r].credential)
        /\ pc[r] \in {"bound", "done"}
              => views[vfOf[r]].token = reqHeader[r].credential

\* two requests with different access keys, signed with different secrets,
\* have both been processed to their end
C28_Witness ==
    \E r1, r2 \in Requests :
        /\ reqHeader[r1].credential # reqHeader[r2].credential
        /\ reqHeader[r1].signature # reqHeader[r2].signature
        /\ pc[r1] = "done"
        /\ pc[r2] = "done"
        /\ calls[r1] > 0
        /\ calls[r2] > 0

(***************************************************************************)
(* Failed writes and the frame of the reads (checked under SpecMeta).      *)
(***************************************************************************)
\* C35 as stated: a PutObject that fails (the copy of the body, the close or
\* the digest) on a key that held an object leaves that object in place with
\* the content it had
C35_FailedPutKeepsObject ==
    (/\ result.op = "PutObject"
     /\ result.err # "ok"
     /\ result.fault \in {"copy", "close", "digest"}
     /\ resultPath \in DOMAIN result.pre.files)
        => /\ resultPath \in DOMAIN fs.files
           /\ fs.files[resultPath].body = result.pre.files[resultPath].body

ReadOps == {"ListBuckets", "ListBucket", "HeadObject", "GetObject", "BucketExists"}

\* C38: ListBuckets, ListBucket, HeadObject, GetObject and BucketExists leave
\* the tree (directories, files, contents, modification times) and the
\* metadata overlay as they were, whether they succeed or fail
C38_ReadOnlyFrame ==
    [][result'.op \in ReadOps => fs' = fs /\ tmpMetaStorage' = tmpMetaStorage]_vars

\* a GetObject has failed on a key whose object was deleted and whose
\* metadata are still stored
C38_Witness ==
    /\ result.op = "GetObject"
    /\ result.err = "NoSuchKey"
    /\ resultPath \in DOMAIN tmpMetaStorage
    /\ tmpMetaStorage[resultPath] # EmptyMeta

(***************************************************************************)
(* Isolation of the identities (checked under SpecTenants).                *)
(***************************************************************************)
\* C34 as stated: metadata stored by a request bearing one access key are
\* never returned by HeadObject or GetObject to a request bearing another
\* access key, also when both address the same bucket and key
C34_MetadataPerIdentity ==
    result.op \in {"HeadObject", "GetObject"}
        => \A h \in DOMAIN result.meta :
              result.meta[h] \notin AccessKeys \ {result.accessKey}

(***************************************************************************)
(* Termination of TouchObject (checked under SpecTouch).                   *)
(***************************************************************************)
\* C37 as stated: TouchObject always terminates, whatever vf.Stat and
\* vf.Create return: every call that was entered returns, also when Stat
\* keeps reporting ENOENT after a successful Create
C37_TouchObjectTerminates ==
    \A r \in Requests : (stack[r] # <<>>) ~> inTouch(r, "returned")

(***************************************************************************)
(* The VFS of a request in proxy mode (checked under SpecProxy).           *)
(***************************************************************************)
\* C31 as stated: in proxy mode getVFS returns for a request the VFS the
\* middleware attached to that request's context for that request's access
\* key, and fails only when the middleware attached nothing
C31_GetVFSReturnsAttached ==
    \A r \in Requests :
        pc[r] \in {"served", "failed"}
            => IF reqCtx[r].ctxKeyId # 0
                   THEN /\ pc[r] = "served"
                        /\ vfOf[r] = reqCtx[r].ctxKeyId
                        /\ views[vfOf[r]].madeFor = accessKeyOf(r)
               ELSE pc[r] = "failed"

(***************************************************************************)
(* The backend mutex and the interleaving of requests (checked under       *)
(* SpecLock).                                                              *)
(***************************************************************************)
lockedFrames(r) == {i \in 1..Len(stack[r]) : stack[r][i].locked}

\* C32: no backend function acquires db.lock while its request holds it
\* (also in the nested calls PutObject -> TouchObject, DeleteMulti ->
\* deleteObjectLocked, CopyObject -> GetObject then PutObject), and the lock
\* is held by a request exactly while one of its functions that acquired it
\* has not returned: every return of such a function releases it
C32_LockNeverHeldTwice ==
    \A r \in Requests :
        /\ (stack[r] # <<>> /\ topOf(r).at = "lock") => lock # r
        /\ Cardinality(lockedFrames(r)) <= 1
        /\ (lock = r) <=> (lockedFrames(r) # {})
        /\ (stack[r] # <<>> /\ topOf(r).at = "returned") => lock # r

\* TouchObject runs below a PutObject that holds the lock
C32_Witness ==
    \E r \in Requests :
        /\ lock = r
        /\ Len(stack[r]) = 2
        /\ topOf(r).fn = "TouchObject"
        /\ stack[r][2].fn = "PutObject"

\* C33 as stated: a PutObject that finds its bucket removed when it comes
\* to write fails with NoSuchBucket and leaves the bucket directory absent
C33_PutNeverCreatesBucket ==
    [][\A r \in Requests :
          (/\ inFn(r, {"PutObject"}, "work")
           /\ stack'[r] # stack[r]
           /\ vfsStat(treeOf(r), <<topOf(r).bucket>>) = "ENOENT")
              => /\ vfsStat(fs'[accessKeyOf(r)], <<topOf(r).bucket>>) = "ENOENT"
                 /\ Head(stack'[r]).err = "NoSuchBucket"]_vars

bottomOf(r) == stack[r][Len(stack[r])]

\* C36 as stated: a HeadObject, GetObject, ListBucket, PutObject or
\* DeleteObject of one access key, once called, returns, also while a
\* PutObject of another access key never gets the rest of its body
C36_TenantsProgress ==
    \A r1, r2 \in Requests :
        (/\ stack[r1] # <<>> /\ stack[r2] # <<>>
         /\ accessKeyOf(r1) # accessKeyOf(r2)
         /\ bottomOf(r1).fn = "PutObject" /\ bottomOf(r1).stalled
         /\ bottomOf(r2).fn \in {"HeadObject", "GetObject", "ListBucket", "PutObject",
                                 "DeleteObject"}
         /\ ~bottomOf(r2).stalled)
            ~> (stack[r2] # <<>> /\ bottomOf(r2).at = "returned")

====
